---- MODULE Spec2Model ----
(***************************************************************************)
(* Model of the chunked stream processor (ecr/stream/chunked_processor.go) *)
(* and of the layer writer built on it (ecr/layer_writer.go).              *)
(*                                                                         *)
(* Spec    : one call of ChunkedProcessor over a finite reader.            *)
(* SpecLW  : one layerWriter, its background goroutine running             *)
(*           ChunkedProcessor over the read end of an io.Pipe, and one     *)
(*           caller issuing Write and Commit calls.                        *)
(***************************************************************************)
EXTENDS Integers, Sequences, FiniteSets, TLC

\* ---- bounds of the model ------------------------------------------------
MaxLen == 5
MaxChunk == 3
MaxQueue == 2
MaxPart == 2
MaxWrite == 3
MaxCalls == 3
\* Close and Truncate are called among the first MaxStubCall calls of a writer
MaxStubCall == 2
\* the concurrent Push calls of the same descriptor
MaxPushCalls == 2

\* ---- constants of the program ------------------------------------------
layerQueueSize == 5

VARIABLES
    \* ChunkedProcessor's arguments and the reader it is given
    input,          \* the bytes of the finite reader (Spec)
    rpos,           \* number of bytes of input already consumed
    chunkSize,
    queueSize,
    \* chunkedReader
    readChannel,    \* buffered chan *Chunk: the queued chunks, oldest first
    rcClosed,       \* close(readChannel) has run
    errClosed,      \* close(errorChannel) has run
    cancelled,      \* reader.cancel() has run (ctx.Done() is closed)
    atCancel,       \* chunks read, chunks sent and whether the producer was in
                    \* readChunk when reader.cancel() ran
    \* goroutine readIntoChunks
    ppc,            \* "select" | "read" | "send" | "sendErr" | "closing" | "done"
    currentBytes,
    currentPart,
    pchunk,         \* <<>> or <<chunk>>: the chunk readChunk returned
    perr,           \* "nil" | "EOF" | "ReadErr": the error readChunk returned
    \* processChunks and the deferred calls of ChunkedProcessor
    cpc,            \* "select" | "callback" | "hung" | "cancel" | "drain" | "closeErr" | "returned"
    cchunk,         \* <<>> or <<chunk>>: the chunk handed to readCallback
    lastReadByte,
    retVal,         \* the int64 ChunkedProcessor returns
    retErr,         \* the error ChunkedProcessor returns ("nil" when none)
    \* observation of the run
    produced,       \* chunks sent on readChannel, in order
    called,         \* chunks passed to readCallback, in order
    cbDone,         \* number of readCallback invocations that returned
    readFailed,     \* a read of the source failed with a non-EOF error
    cbFailed,       \* readCallback returned an error
    lateReads,      \* reads of the source started after ChunkedProcessor returned
    \* io.Pipe between layerWriter.buf and the reader given to ChunkedProcessor
    pipeData,       \* bytes of the Write in progress that no Read has taken yet
    pipeWClosed,    \* lw.buf.Close() has run
    rbuf,           \* bytes io.ReadFull has gathered for the chunk being read
    wnext,          \* number of bytes the caller has handed to the pipe so far
    \* layerWriter
    lwErrClosed,    \* close(lw.err) has run
    lwCtxDone,      \* cancel() of lw.ctx has run
    gpc,            \* goroutine of newLayerWriter: "run" | "sendErr" | "closeErr" | "cancel" | "done"
    statusOffset,   \* Offset of the ref's status in the tracker
    \* the ECR client
    uploads,        \* UploadLayerPart calls, in order
    completeCalls,  \* number of CompleteLayerUpload calls
    expectedSha,    \* the expected digest starts with "sha256:"
    \* the caller of Write and Commit
    kpc,            \* "new" | "noWriter" | "idle" | "wsel" | "wpipe" | "csel" | "complete"
    wlen,           \* len(b) of the Write in progress
    callPre,        \* what the call in progress found when it started
    commitCtxDone,  \* the ctx passed to Commit has been cancelled
    errTaken,       \* the value sent on lw.err has been received by a call
    results,        \* the calls that returned, in order
    initiates,      \* what each InitiateLayerUpload call returned, in order
    newResult,      \* what newLayerWriter returned
    completes,      \* CompleteLayerUpload calls, in order, with what had been uploaded
    \* manifestWriter
    mwBuf,          \* mw.buf, the bytes buffered so far
    mwWrites,       \* the byte slices passed to Write, in order
    putImages,      \* PutImage calls: the manifest sent and the call that made it
    mwOffset,       \* Offset of the ref's status record
    mwResults,      \* the calls that returned, in order
    \* ecrPusher.pushBlob
    checks,         \* what each BatchCheckLayerAvailability call returned
    statusSet,      \* the status records pushBlob has set for the ref
    pushResult,     \* what pushBlob returned without calling newLayerWriter
    \* the tracker's record of one ref, its callback and concurrent Push calls
    trStatus,       \* the Status the tracker holds for the ref
    cbStatus,       \* the callback's local variable status
    cbBytes,        \* the callback's bytesRead
    cbParts,        \* the parts whose callback has returned nil
    cbpc,           \* the callback: idle, uploaded, got, failed
    setLog,         \* the SetStatus calls on the ref, with the record each replaced
    pushes          \* the concurrent Push calls that have set the ref's status

cpvars == <<input, rpos, chunkSize, queueSize, readChannel, rcClosed, errClosed,
            cancelled, atCancel, ppc, currentBytes, currentPart, pchunk, perr, cpc, cchunk,
            lastReadByte, retVal, retErr, produced, called, cbDone, readFailed,
            cbFailed, lateReads>>

lwvars == <<pipeData, pipeWClosed, rbuf, wnext, lwErrClosed, lwCtxDone, gpc,
            statusOffset, uploads, completeCalls, expectedSha, kpc, wlen,
            callPre, commitCtxDone, errTaken, results, initiates, newResult,
            completes>>

mwvars == <<mwBuf, mwWrites, putImages, mwOffset, mwResults>>

pushvars == <<checks, statusSet, pushResult>>

stvars == <<trStatus, cbStatus, cbBytes, cbParts, cbpc, setLog, pushes>>

extvars == <<mwvars, pushvars, stvars>>

vars == <<cpvars, lwvars, extvars>>

\* ---- helpers ------------------------------------------------------------
Min(a, b) == IF a < b THEN a ELSE b

\* bytes first..last (1-based) of s
Slice(s, first, last) == [i \in 1..(last - first + 1) |-> s[first + i - 1]]

RECURSIVE Concat(_)
Concat(chunks) ==
    IF chunks = <<>> THEN <<>>
    ELSE Head(chunks).Bytes \o Concat(Tail(chunks))

\* io.ReadFull over a finite reader holding data, pos bytes already consumed:
\* the bytes read and the error.
ReadFull(data, pos, size) ==
    LET avail == Len(data) - pos
        n     == Min(size, avail)
    IN  [buf |-> Slice(data, pos + 1, pos + n),
         err |-> IF n = size THEN "nil"
                 ELSE IF n = 0 THEN "EOF" ELSE "ErrUnexpectedEOF"]

\* readChunk building a chunk only from a full read: the short last chunk is lost
readChunk_DropShort(buf, err, bytesBegin, part) ==
    IF err # "nil" /\ err # "ErrUnexpectedEOF" /\ err # "EOF"
    THEN [chunk |-> <<>>, err |-> err]
    ELSE [chunk |-> IF err = "nil"
                    THEN << [Part       |-> part,
                             BytesBegin |-> bytesBegin,
                             BytesEnd   |-> bytesBegin + Len(buf) - 1,
                             Bytes      |-> buf] >>
                    ELSE <<>>,
          err   |-> IF err = "ErrUnexpectedEOF" THEN "EOF" ELSE err]

\* readChunk building a chunk from every read, also from one of no bytes
readChunk_EmptyChunk(buf, err, bytesBegin, part) ==
    IF err # "nil" /\ err # "ErrUnexpectedEOF" /\ err # "EOF"
    THEN [chunk |-> <<>>, err |-> err]
    ELSE [chunk |-> << [Part       |-> part,
                        BytesBegin |-> bytesBegin,
                        BytesEnd   |-> bytesBegin + Len(buf) - 1,
                        Bytes      |-> buf] >>,
          err   |-> IF err = "ErrUnexpectedEOF" THEN "EOF" ELSE err]

\* chunkedReader.readChunk, given what io.ReadFull returned
readChunk(buf, err, bytesBegin, part) ==
    IF err # "nil" /\ err # "ErrUnexpectedEOF" /\ err # "EOF"
    THEN [chunk |-> <<>>, err |-> err]
    ELSE [chunk |-> IF Len(buf) > 0
                    THEN << [Part       |-> part,
                             BytesBegin |-> bytesBegin,
                             BytesEnd   |-> bytesBegin + Len(buf) - 1,
                             Bytes      |-> buf] >>
                    ELSE <<>>,
          err   |-> IF err = "ErrUnexpectedEOF" THEN "EOF" ELSE err]

\* ---- Init ---------------------------------------------------------------
InitCP ==
    /\ rpos = 0
    /\ readChannel = <<>>
    /\ rcClosed = FALSE
    /\ errClosed = FALSE
    /\ cancelled = FALSE
    /\ atCancel = [chunks |-> 0, sent |-> 0, reading |-> FALSE]
    /\ ppc = "select"
    /\ currentBytes = 0
    /\ currentPart = 0
    /\ pchunk = <<>>
    /\ perr = "nil"
    /\ cpc = "select"
    /\ cchunk = <<>>
    /\ lastReadByte = 0
    /\ retVal = 0
    /\ retErr = "nil"
    /\ produced = <<>>
    /\ called = <<>>
    /\ cbDone = 0
    /\ readFailed = FALSE
    /\ cbFailed = FALSE
    /\ lateReads = 0

\* no layerWriter: the pipe, the goroutine and the caller stay as they are
IdleLW ==
    /\ pipeData = <<>>
    /\ pipeWClosed = FALSE
    /\ rbuf = <<>>
    /\ wnext = 0
    /\ lwErrClosed = FALSE
    /\ lwCtxDone = FALSE
    /\ gpc = "run"
    /\ statusOffset = 0
    /\ uploads = <<>>
    /\ completeCalls = 0
    /\ kpc = "idle"
    /\ wlen = 0
    /\ callPre = [stopped |-> FALSE, taken |-> FALSE]
    /\ commitCtxDone = FALSE
    /\ errTaken = FALSE
    /\ results = <<>>
    /\ initiates = <<"nil">>
    /\ newResult = [returned |-> TRUE, writer |-> TRUE, err |-> "nil"]
    /\ completes = <<>>

\* the status records pushBlob sets: markStatusExists gives UpdatedAt,
\* markStatusStarted gives Total, Expected and StartedAt; Offset is 0 in both.
\* descSize is the Size of the descriptor pushed.
descSize == 5

StatusExists == [Offset |-> 0, Total |-> 0, UpdatedAt |-> TRUE, StartedAt |-> FALSE]
StatusStarted == [Offset |-> 0, Total |-> descSize, UpdatedAt |-> FALSE, StartedAt |-> TRUE]

\* pushBlob after BatchCheckLayerAvailability answered with one layer that is
\* not available and markStatusStarted has run
StartedPush ==
    /\ checks = << [err |-> "nil", Layers |-> <<"UNAVAILABLE">>, Failures |-> 0] >>
    /\ statusSet = <<StatusStarted>>
    /\ pushResult = [returned |-> FALSE, writer |-> FALSE, err |-> "nil"]

\* no manifestWriter: its buffer and records stay as they are
IdleMW ==
    /\ mwBuf = <<>>
    /\ mwWrites = <<>>
    /\ putImages = <<>>
    /\ mwOffset = 0
    /\ mwResults = <<>>

\* no callback is running and no other Push has touched the ref's record
IdleST ==
    /\ trStatus = StatusStarted
    /\ cbStatus = StatusStarted
    /\ cbBytes = 0
    /\ cbParts = 0
    /\ cbpc = "idle"
    /\ setLog = <<>>
    /\ pushes = 0

Init ==
    /\ \E len \in 0..MaxLen : input = [i \in 1..len |-> i]
    /\ chunkSize \in 1..MaxChunk
    /\ queueSize \in 0..MaxQueue
    /\ InitCP
    /\ IdleLW
    /\ IdleMW
    /\ IdleST
    /\ StartedPush
    /\ expectedSha = TRUE

\* ---- goroutine readIntoChunks -------------------------------------------
\* what the loop body does with the result of readChunk
AfterReadChunk(r) ==
    /\ pchunk' = r.chunk
    /\ perr' = r.err
    /\ ppc' = IF r.err # "nil" /\ r.err # "EOF" THEN "sendErr"
              ELSE IF r.chunk # <<>> THEN "send"
              ELSE IF r.err = "EOF" THEN "closing"
              ELSE "select"

\* the loop body with currentBytes = chunk.BytesEnd, without the + 1
AfterSend_OffByOne ==
    /\ currentBytes' = pchunk[1].BytesEnd
    /\ currentPart' = currentPart + 1
    /\ produced' = Append(produced, pchunk[1])
    /\ pchunk' = <<>>
    /\ ppc' = IF perr = "EOF" THEN "closing" ELSE "select"

\* what the loop body does once `reader.readChannel <- chunk` has completed
AfterSend ==
    /\ currentBytes' = pchunk[1].BytesEnd + 1
    /\ currentPart' = currentPart + 1
    /\ produced' = Append(produced, pchunk[1])
    /\ pchunk' = <<>>
    /\ ppc' = IF perr = "EOF" THEN "closing" ELSE "select"

\* a producer that does not look at the context before reading
P_Select_NoCtx ==
    /\ ppc = "select"
    /\ ppc' = "read"
    /\ UNCHANGED <<lwvars, extvars>>
    /\ UNCHANGED <<input, rpos, chunkSize, queueSize, readChannel, rcClosed,
                   errClosed, cancelled, atCancel, currentBytes, currentPart,
                   pchunk, perr, cpc, cchunk, lastReadByte, retVal, retErr,
                   produced, called, cbDone, readFailed, cbFailed, lateReads>>

\* select { case <-reader.ctx.Done(): return; default: ... }
P_Select ==
    /\ ppc = "select"
    /\ ppc' = IF cancelled THEN "closing" ELSE "read"
    /\ UNCHANGED <<lwvars, extvars>>
    /\ UNCHANGED <<input, rpos, chunkSize, queueSize, readChannel, rcClosed,
                   errClosed, cancelled, atCancel, currentBytes, currentPart, pchunk, perr,
                   cpc, cchunk, lastReadByte, retVal, retErr, produced, called,
                   cbDone, readFailed, cbFailed, lateReads>>

\* readChunk over the finite reader: the read succeeds or ends the stream
P_Read ==
    /\ ppc = "read"
    /\ LET rf == ReadFull(input, rpos, chunkSize)
       IN  /\ rpos' = rpos + Len(rf.buf)
           /\ AfterReadChunk(readChunk(rf.buf, rf.err, currentBytes, currentPart))
    /\ lateReads' = IF cpc = "returned" THEN lateReads + 1 ELSE lateReads
    /\ UNCHANGED <<lwvars, extvars>>
    /\ UNCHANGED <<input, chunkSize, queueSize, readChannel, rcClosed, errClosed,
                   cancelled, atCancel, currentBytes, currentPart, cpc, cchunk,
                   lastReadByte, retVal, retErr, produced, called, cbDone,
                   readFailed, cbFailed>>

\* readChunk over the finite reader: the reader fails after n more bytes
P_ReadFail ==
    /\ ppc = "read"
    /\ \E n \in 0..Min(chunkSize - 1, Len(input) - rpos) :
          /\ rpos' = rpos + n
          /\ AfterReadChunk(readChunk(Slice(input, rpos + 1, rpos + n), "ReadErr",
                                      currentBytes, currentPart))
    /\ readFailed' = TRUE
    /\ lateReads' = IF cpc = "returned" THEN lateReads + 1 ELSE lateReads
    /\ UNCHANGED <<lwvars, extvars>>
    /\ UNCHANGED <<input, chunkSize, queueSize, readChannel, rcClosed, errClosed,
                   cancelled, atCancel, currentBytes, currentPart, cpc, cchunk,
                   lastReadByte, retVal, retErr, produced, called, cbDone,
                   cbFailed>>

\* reader.readChannel <- chunk, into a free slot of the buffer
P_Send ==
    /\ ppc = "send"
    /\ ~rcClosed
    /\ Len(readChannel) < queueSize
    /\ readChannel' = Append(readChannel, pchunk[1])
    /\ AfterSend
    /\ UNCHANGED <<lwvars, extvars>>
    /\ UNCHANGED <<input, rpos, chunkSize, queueSize, rcClosed, errClosed,
                   cancelled, atCancel, perr, cpc, cchunk, lastReadByte, retVal, retErr,
                   called, cbDone, readFailed, cbFailed, lateReads>>

\* defer close(reader.readChannel), the goroutine's last act
P_Close ==
    /\ ppc = "closing"
    /\ rcClosed' = TRUE
    /\ ppc' = "done"
    /\ UNCHANGED <<lwvars, extvars>>
    /\ UNCHANGED <<input, rpos, chunkSize, queueSize, readChannel, errClosed,
                   cancelled, atCancel, currentBytes, currentPart, pchunk, perr, cpc,
                   cchunk, lastReadByte, retVal, retErr, produced, called,
                   cbDone, readFailed, cbFailed, lateReads>>

\* ---- processChunks ------------------------------------------------------
\* `return v, e` of processChunks: the deferred cancel comes next
Return(v, e) ==
    /\ retVal' = v
    /\ retErr' = e
    /\ cpc' = "cancel"

\* a receive that takes the newest queued chunk instead of the oldest
C_RecvChunk_Newest ==
    /\ cpc = "select"
    /\ Len(readChannel) > 0
    /\ cchunk' = <<readChannel[Len(readChannel)]>>
    /\ readChannel' = SubSeq(readChannel, 1, Len(readChannel) - 1)
    /\ lastReadByte' = readChannel[Len(readChannel)].BytesEnd
    /\ called' = Append(called, readChannel[Len(readChannel)])
    /\ cpc' = "callback"
    /\ UNCHANGED <<lwvars, extvars>>
    /\ UNCHANGED <<input, rpos, chunkSize, queueSize, rcClosed, errClosed,
                   cancelled, atCancel, ppc, currentBytes, currentPart, pchunk, perr,
                   retVal, retErr, produced, cbDone, readFailed, cbFailed,
                   lateReads>>

\* case chunk := <-reader.readChannel, a queued chunk
C_RecvChunk ==
    /\ cpc = "select"
    /\ Len(readChannel) > 0
    /\ cchunk' = <<Head(readChannel)>>
    /\ readChannel' = Tail(readChannel)
    /\ lastReadByte' = Head(readChannel).BytesEnd
    /\ called' = Append(called, Head(readChannel))
    /\ cpc' = "callback"
    /\ UNCHANGED <<lwvars, extvars>>
    /\ UNCHANGED <<input, rpos, chunkSize, queueSize, rcClosed, errClosed,
                   cancelled, atCancel, ppc, currentBytes, currentPart, pchunk, perr,
                   retVal, retErr, produced, cbDone, readFailed, cbFailed,
                   lateReads>>

\* case chunk := <-reader.readChannel, unbuffered: the blocked sender hands over
C_RecvHandoff ==
    /\ cpc = "select"
    /\ ppc = "send"
    /\ queueSize = 0
    /\ cchunk' = pchunk
    /\ lastReadByte' = pchunk[1].BytesEnd
    /\ called' = Append(called, pchunk[1])
    /\ cpc' = "callback"
    /\ AfterSend
    /\ UNCHANGED <<lwvars, extvars>>
    /\ UNCHANGED <<input, rpos, chunkSize, queueSize, readChannel, rcClosed,
                   errClosed, cancelled, atCancel, perr, retVal, retErr, cbDone,
                   readFailed, cbFailed, lateReads>>

\* the end of the stream returning the number of bytes, lastReadByte + 1
C_RecvClosed_Count ==
    /\ cpc = "select"
    /\ rcClosed
    /\ Len(readChannel) = 0
    /\ Return(lastReadByte + 1, "nil")
    /\ UNCHANGED <<lwvars, extvars>>
    /\ UNCHANGED <<input, rpos, chunkSize, queueSize, readChannel, rcClosed,
                   errClosed, cancelled, atCancel, ppc, currentBytes, currentPart, pchunk,
                   perr, cchunk, lastReadByte, produced, called, cbDone,
                   readFailed, cbFailed, lateReads>>

\* case chunk := <-reader.readChannel, closed and empty: chunk == nil, eof
C_RecvClosed ==
    /\ cpc = "select"
    /\ rcClosed
    /\ Len(readChannel) = 0
    /\ Return(lastReadByte, "nil")
    /\ UNCHANGED <<lwvars, extvars>>
    /\ UNCHANGED <<input, rpos, chunkSize, queueSize, readChannel, rcClosed,
                   errClosed, cancelled, atCancel, ppc, currentBytes, currentPart, pchunk,
                   perr, cchunk, lastReadByte, produced, called, cbDone,
                   readFailed, cbFailed, lateReads>>

\* a receive of the producer's error that ends the loop as at end of stream
C_RecvErr_Swallowed ==
    /\ cpc = "select"
    /\ ppc = "sendErr"
    /\ Return(lastReadByte, "nil")
    /\ ppc' = "closing"
    /\ UNCHANGED <<lwvars, extvars>>
    /\ UNCHANGED <<input, rpos, chunkSize, queueSize, readChannel, rcClosed,
                   errClosed, cancelled, atCancel, currentBytes, currentPart, pchunk, perr,
                   cchunk, lastReadByte, produced, called, cbDone, readFailed,
                   cbFailed, lateReads>>

\* case err := <-reader.errorChannel: the producer is blocked in its send
C_RecvErr ==
    /\ cpc = "select"
    /\ ppc = "sendErr"
    /\ Return(0, perr)
    /\ ppc' = "closing"
    /\ UNCHANGED <<lwvars, extvars>>
    /\ UNCHANGED <<input, rpos, chunkSize, queueSize, readChannel, rcClosed,
                   errClosed, cancelled, atCancel, currentBytes, currentPart, pchunk, perr,
                   cchunk, lastReadByte, produced, called, cbDone, readFailed,
                   cbFailed, lateReads>>

\* readCallback(chunk) returns nil
C_CallbackOk ==
    /\ cpc = "callback"
    /\ cbDone' = cbDone + 1
    /\ cchunk' = <<>>
    /\ cpc' = "select"
    /\ UNCHANGED <<lwvars, extvars>>
    /\ UNCHANGED <<input, rpos, chunkSize, queueSize, readChannel, rcClosed,
                   errClosed, cancelled, atCancel, ppc, currentBytes, currentPart, pchunk,
                   perr, lastReadByte, retVal, retErr, produced, called,
                   readFailed, cbFailed, lateReads>>

\* a callback error that is recorded but does not end the loop
C_CallbackFail_Continue ==
    /\ cpc = "callback"
    /\ cbDone' = cbDone + 1
    /\ cbFailed' = TRUE
    /\ cchunk' = <<>>
    /\ retErr' = "CallbackErr"
    /\ cpc' = "select"
    /\ UNCHANGED <<lwvars, extvars>>
    /\ UNCHANGED <<input, rpos, chunkSize, queueSize, readChannel, rcClosed,
                   errClosed, cancelled, atCancel, ppc, currentBytes, currentPart, pchunk,
                   perr, lastReadByte, retVal, produced, called, readFailed,
                   lateReads>>

\* readCallback(chunk) returns an error
C_CallbackFail ==
    /\ cpc = "callback"
    /\ cbDone' = cbDone + 1
    /\ cbFailed' = TRUE
    /\ cchunk' = <<>>
    /\ Return(0, "CallbackErr")
    /\ UNCHANGED <<lwvars, extvars>>
    /\ UNCHANGED <<input, rpos, chunkSize, queueSize, readChannel, rcClosed,
                   errClosed, cancelled, atCancel, ppc, currentBytes, currentPart, pchunk,
                   perr, lastReadByte, produced, called, readFailed, lateReads>>

\* defer reader.cancel()
C_Cancel ==
    /\ cpc = "cancel"
    /\ cancelled' = TRUE
    /\ atCancel' = [chunks |-> Len(produced) + Len(pchunk), sent |-> Len(produced),
                    reading |-> ppc = "read"]
    /\ cpc' = "drain"
    /\ UNCHANGED <<lwvars, extvars>>
    /\ UNCHANGED <<input, rpos, chunkSize, queueSize, readChannel, rcClosed,
                   errClosed, ppc, currentBytes, currentPart, pchunk, perr,
                   cchunk, lastReadByte, retVal, retErr, produced, called,
                   cbDone, readFailed, cbFailed, lateReads>>

\* for range bufferedReader.readChannel: one queued chunk is discarded
C_DrainChunk ==
    /\ cpc = "drain"
    /\ Len(readChannel) > 0
    /\ readChannel' = Tail(readChannel)
    /\ UNCHANGED <<lwvars, extvars>>
    /\ UNCHANGED <<input, rpos, chunkSize, queueSize, rcClosed, errClosed,
                   cancelled, atCancel, ppc, currentBytes, currentPart, pchunk, perr, cpc,
                   cchunk, lastReadByte, retVal, retErr, produced, called,
                   cbDone, readFailed, cbFailed, lateReads>>

\* a drain over the unbuffered channel that gives up instead of receiving
\* from the blocked sender
C_DrainHandoff_GiveUp ==
    /\ cpc = "drain"
    /\ ppc = "send"
    /\ queueSize = 0
    /\ cpc' = "closeErr"
    /\ UNCHANGED <<lwvars, extvars>>
    /\ UNCHANGED <<input, rpos, chunkSize, queueSize, readChannel, rcClosed,
                   errClosed, cancelled, atCancel, ppc, currentBytes,
                   currentPart, pchunk, perr, cchunk, lastReadByte, retVal,
                   retErr, produced, called, cbDone, readFailed, cbFailed,
                   lateReads>>

\* for range bufferedReader.readChannel, unbuffered: the blocked sender's chunk
C_DrainHandoff ==
    /\ cpc = "drain"
    /\ ppc = "send"
    /\ queueSize = 0
    /\ AfterSend
    /\ UNCHANGED <<lwvars, extvars>>
    /\ UNCHANGED <<input, rpos, chunkSize, queueSize, readChannel, rcClosed,
                   errClosed, cancelled, atCancel, perr, cpc, cchunk, lastReadByte, retVal,
                   retErr, called, cbDone, readFailed, cbFailed, lateReads>>

\* a drain that stops at an empty channel without waiting for its close
C_DrainEnd_NoWait ==
    /\ cpc = "drain"
    /\ Len(readChannel) = 0
    /\ cpc' = "closeErr"
    /\ UNCHANGED <<lwvars, extvars>>
    /\ UNCHANGED <<input, rpos, chunkSize, queueSize, readChannel, rcClosed,
                   errClosed, cancelled, atCancel, ppc, currentBytes, currentPart, pchunk,
                   perr, cchunk, lastReadByte, retVal, retErr, produced, called,
                   cbDone, readFailed, cbFailed, lateReads>>

\* for range bufferedReader.readChannel ends: the channel is closed and empty
C_DrainEnd ==
    /\ cpc = "drain"
    /\ rcClosed
    /\ Len(readChannel) = 0
    /\ cpc' = "closeErr"
    /\ UNCHANGED <<lwvars, extvars>>
    /\ UNCHANGED <<input, rpos, chunkSize, queueSize, readChannel, rcClosed,
                   errClosed, cancelled, atCancel, ppc, currentBytes, currentPart, pchunk,
                   perr, cchunk, lastReadByte, retVal, retErr, produced, called,
                   cbDone, readFailed, cbFailed, lateReads>>

\* defer close(bufferedReader.errorChannel); ChunkedProcessor returns
C_CloseErr ==
    /\ cpc = "closeErr"
    /\ errClosed' = TRUE
    /\ cpc' = "returned"
    /\ UNCHANGED <<lwvars, extvars>>
    /\ UNCHANGED <<input, rpos, chunkSize, queueSize, readChannel, rcClosed,
                   cancelled, atCancel, ppc, currentBytes, currentPart, pchunk, perr,
                   cchunk, lastReadByte, retVal, retErr, produced, called,
                   cbDone, readFailed, cbFailed, lateReads>>

Next ==
    \/ P_Select \/ P_Read \/ P_ReadFail \/ P_Send \/ P_Close
    \/ C_RecvChunk \/ C_RecvHandoff \/ C_RecvClosed \/ C_RecvErr
    \/ C_CallbackOk \/ C_CallbackFail
    \/ C_Cancel \/ C_DrainChunk \/ C_DrainHandoff \/ C_DrainEnd \/ C_CloseErr

Spec == Init /\ [][Next]_vars

\* The Go scheduler runs every goroutine that can take a step: the producer
\* goroutine and the goroutine that called ChunkedProcessor each keep going.
ProducerStep == P_Select \/ P_Read \/ P_ReadFail \/ P_Send \/ P_Close
ConsumerStep ==
    \/ C_RecvChunk \/ C_RecvHandoff \/ C_RecvClosed \/ C_RecvErr
    \/ C_CallbackOk \/ C_CallbackFail
    \/ C_Cancel \/ C_DrainChunk \/ C_DrainHandoff \/ C_DrainEnd \/ C_CloseErr

FairSpec == Spec /\ WF_vars(ProducerStep) /\ WF_vars(ConsumerStep)

\* ---- layerWriter: construction ------------------------------------------
\* newLayerWriter has made the context, the pipe and the layerWriter struct
\* and is about to call InitiateLayerUpload
BeforeNewLayerWriter ==
    /\ input = <<>>
    /\ rpos = 0
    /\ chunkSize = 0
    /\ queueSize = layerQueueSize
    /\ readChannel = <<>>
    /\ rcClosed = FALSE
    /\ errClosed = FALSE
    /\ cancelled = FALSE
    /\ atCancel = [chunks |-> 0, sent |-> 0, reading |-> FALSE]
    /\ ppc = "notStarted"
    /\ currentBytes = 0
    /\ currentPart = 0
    /\ pchunk = <<>>
    /\ perr = "nil"
    /\ cpc = "notStarted"
    /\ cchunk = <<>>
    /\ lastReadByte = 0
    /\ retVal = 0
    /\ retErr = "nil"
    /\ produced = <<>>
    /\ called = <<>>
    /\ cbDone = 0
    /\ readFailed = FALSE
    /\ cbFailed = FALSE
    /\ lateReads = 0
    /\ pipeData = <<>>
    /\ pipeWClosed = FALSE
    /\ rbuf = <<>>
    /\ wnext = 0
    /\ lwErrClosed = FALSE
    /\ lwCtxDone = FALSE
    /\ gpc = "notStarted"
    /\ statusOffset = 0
    /\ uploads = <<>>
    /\ completeCalls = 0
    /\ expectedSha \in BOOLEAN
    /\ wlen = 0
    /\ callPre = [stopped |-> FALSE, taken |-> FALSE]
    /\ commitCtxDone = FALSE
    /\ errTaken = FALSE
    /\ results = <<>>
    /\ initiates = <<>>
    /\ newResult = [returned |-> FALSE, writer |-> FALSE, err |-> "nil"]
    /\ completes = <<>>

\* pushBlob has found the layer missing, marked the ref as started and calls
\* newLayerWriter
InitLW ==
    /\ BeforeNewLayerWriter
    /\ kpc = "new"
    /\ IdleMW
    /\ IdleST
    /\ StartedPush

\* a newLayerWriter that starts the upload without calling InitiateLayerUpload
NewLayerWriterOk_NoInitiate ==
    /\ kpc = "new"
    /\ newResult' = [returned |-> TRUE, writer |-> TRUE, err |-> "nil"]
    /\ chunkSize' \in 1..MaxPart
    /\ gpc' = "run"
    /\ ppc' = "select"
    /\ cpc' = "select"
    /\ kpc' = "idle"
    /\ UNCHANGED <<input, rpos, queueSize, readChannel, rcClosed, errClosed,
                   cancelled, atCancel, currentBytes, currentPart, pchunk, perr, cchunk,
                   lastReadByte, retVal, retErr, produced, called, cbDone,
                   readFailed, cbFailed, lateReads>>
    /\ UNCHANGED <<pipeData, pipeWClosed, rbuf, wnext, lwErrClosed, lwCtxDone,
                   statusOffset, uploads, completeCalls, expectedSha, wlen,
                   callPre, commitCtxDone, errTaken, results, initiates, completes,
                   extvars>>

\* InitiateLayerUpload succeeds: partSize is taken from its output,
\* newLayerWriter starts the goroutine, which runs
\* stream.ChunkedProcessor(reader, partSize, layerQueueSize, callback),
\* and returns the writer
NewLayerWriterOk ==
    /\ kpc = "new"
    /\ initiates' = Append(initiates, "nil")
    /\ newResult' = [returned |-> TRUE, writer |-> TRUE, err |-> "nil"]
    /\ chunkSize' \in 1..MaxPart
    /\ gpc' = "run"
    /\ ppc' = "select"
    /\ cpc' = "select"
    /\ kpc' = "idle"
    /\ UNCHANGED <<input, rpos, queueSize, readChannel, rcClosed, errClosed,
                   cancelled, atCancel, currentBytes, currentPart, pchunk, perr, cchunk,
                   lastReadByte, retVal, retErr, produced, called, cbDone,
                   readFailed, cbFailed, lateReads>>
    /\ UNCHANGED <<pipeData, pipeWClosed, rbuf, wnext, lwErrClosed, lwCtxDone,
                   statusOffset, uploads, completeCalls, expectedSha, wlen,
                   callPre, commitCtxDone, errTaken, results, completes, extvars>>

\* InitiateLayerUpload succeeds with no PartSize or PartSize 0:
\* aws.Int64Value gives partSize = 0 and the goroutine runs
\* stream.ChunkedProcessor(reader, 0, layerQueueSize, callback)
NewLayerWriterNoPartSize ==
    /\ kpc = "new"
    /\ initiates' = Append(initiates, "nil")
    /\ newResult' = [returned |-> TRUE, writer |-> TRUE, err |-> "nil"]
    /\ chunkSize' = 0
    /\ gpc' = "run"
    /\ ppc' = "select"
    /\ cpc' = "select"
    /\ kpc' = "idle"
    /\ UNCHANGED <<input, rpos, queueSize, readChannel, rcClosed, errClosed,
                   cancelled, atCancel, currentBytes, currentPart, pchunk, perr, cchunk,
                   lastReadByte, retVal, retErr, produced, called, cbDone,
                   readFailed, cbFailed, lateReads>>
    /\ UNCHANGED <<pipeData, pipeWClosed, rbuf, wnext, lwErrClosed, lwCtxDone,
                   statusOffset, uploads, completeCalls, expectedSha, wlen,
                   callPre, commitCtxDone, errTaken, results, completes, extvars>>

\* InitiateLayerUpload fails: cancel(), return nil, err
NewLayerWriterFail ==
    /\ kpc = "new"
    /\ initiates' = Append(initiates, "InitiateErr")
    /\ newResult' = [returned |-> TRUE, writer |-> FALSE, err |-> initiates'[Len(initiates')]]
    /\ lwCtxDone' = TRUE
    /\ kpc' = "noWriter"
    /\ UNCHANGED cpvars
    /\ UNCHANGED <<pipeData, pipeWClosed, rbuf, wnext, lwErrClosed, gpc,
                   statusOffset, uploads, completeCalls, expectedSha, wlen,
                   callPre, commitCtxDone, errTaken, results, completes, extvars>>

\* ---- readChunk over the read end of the pipe ---------------------------
\* one Read of io.ReadFull takes bytes of the Write in progress; with a buffer
\* of no bytes io.ReadFull returns 0, nil at once, without a Read
P_PipeRead ==
    /\ ppc = "read"
    /\ pipeData # <<>> \/ chunkSize = 0
    /\ LET k   == Min(chunkSize - Len(rbuf), Len(pipeData))
           got == rbuf \o SubSeq(pipeData, 1, k)
       IN  /\ pipeData' = SubSeq(pipeData, k + 1, Len(pipeData))
           /\ IF Len(got) = chunkSize
              THEN /\ rbuf' = <<>>
                   /\ AfterReadChunk(readChunk(got, "nil", currentBytes, currentPart))
              ELSE /\ rbuf' = got
                   /\ UNCHANGED <<pchunk, perr, ppc>>
    /\ lateReads' = IF cpc = "returned" /\ rbuf = <<>> THEN lateReads + 1 ELSE lateReads
    /\ UNCHANGED <<input, rpos, chunkSize, queueSize, readChannel, rcClosed,
                   errClosed, cancelled, atCancel, currentBytes, currentPart, cpc, cchunk,
                   lastReadByte, retVal, retErr, produced, called, cbDone,
                   readFailed, cbFailed>>
    /\ UNCHANGED <<pipeWClosed, wnext, lwErrClosed, lwCtxDone, gpc, statusOffset,
                   uploads, completeCalls, expectedSha, kpc, wlen, callPre,
                   commitCtxDone, errTaken, results>>
    /\ UNCHANGED <<initiates, newResult, completes, extvars>>

\* an io.ReadFull that calls Read for a buffer of no bytes too
P_PipeEOF_ZeroRead ==
    /\ ppc = "read"
    /\ pipeData = <<>>
    /\ pipeWClosed
    /\ rbuf' = <<>>
    /\ AfterReadChunk(readChunk(rbuf, IF rbuf = <<>> THEN "EOF" ELSE "ErrUnexpectedEOF",
                                currentBytes, currentPart))
    /\ lateReads' = IF cpc = "returned" /\ rbuf = <<>> THEN lateReads + 1 ELSE lateReads
    /\ UNCHANGED <<input, rpos, chunkSize, queueSize, readChannel, rcClosed,
                   errClosed, cancelled, atCancel, currentBytes, currentPart, cpc, cchunk,
                   lastReadByte, retVal, retErr, produced, called, cbDone,
                   readFailed, cbFailed>>
    /\ UNCHANGED <<pipeData, pipeWClosed, wnext, lwErrClosed, lwCtxDone, gpc,
                   statusOffset, uploads, completeCalls, expectedSha, kpc, wlen,
                   callPre, commitCtxDone, errTaken, results>>
    /\ UNCHANGED <<initiates, newResult, completes, extvars>>

\* one Read of io.ReadFull finds the write end closed: io.EOF
P_PipeEOF ==
    /\ ppc = "read"
    /\ chunkSize > 0
    /\ pipeData = <<>>
    /\ pipeWClosed
    /\ rbuf' = <<>>
    /\ AfterReadChunk(readChunk(rbuf, IF rbuf = <<>> THEN "EOF" ELSE "ErrUnexpectedEOF",
                                currentBytes, currentPart))
    /\ lateReads' = IF cpc = "returned" /\ rbuf = <<>> THEN lateReads + 1 ELSE lateReads
    /\ UNCHANGED <<input, rpos, chunkSize, queueSize, readChannel, rcClosed,
                   errClosed, cancelled, atCancel, currentBytes, currentPart, cpc, cchunk,
                   lastReadByte, retVal, retErr, produced, called, cbDone,
                   readFailed, cbFailed>>
    /\ UNCHANGED <<pipeData, pipeWClosed, wnext, lwErrClosed, lwCtxDone, gpc,
                   statusOffset, uploads, completeCalls, expectedSha, kpc, wlen,
                   callPre, commitCtxDone, errTaken, results>>
    /\ UNCHANGED <<initiates, newResult, completes, extvars>>

\* ---- the callback of newLayerWriter -------------------------------------
UploadLayerPartInput(c) ==
    [PartFirstByte |-> c.BytesBegin, PartLastByte |-> c.BytesEnd,
     LayerPartBlob |-> c.Bytes]

\* an UploadLayerPart call: its input, the error it returned, the number of
\* CompleteLayerUpload calls made before it, what the callback returned, and
\* the status record's Offset before the callback and after it
UploadCall(c, err, cb, after) ==
    [input |-> UploadLayerPartInput(c), err |-> err, completes |-> completeCalls,
     cb |-> cb, offset |-> statusOffset, offsetAfter |-> after]

\* a callback that adds bytesRead to the Offset, without the + 1
C_UploadOk_NoPlusOne ==
    /\ cpc = "callback"
    /\ uploads' = Append(uploads,
            UploadCall(cchunk[1], "nil", "nil",
                       statusOffset + (cchunk[1].BytesEnd - cchunk[1].BytesBegin)))
    /\ statusOffset' = statusOffset + (cchunk[1].BytesEnd - cchunk[1].BytesBegin)
    /\ cbDone' = cbDone + 1
    /\ cchunk' = <<>>
    /\ cpc' = "select"
    /\ UNCHANGED <<input, rpos, chunkSize, queueSize, readChannel, rcClosed,
                   errClosed, cancelled, atCancel, ppc, currentBytes, currentPart, pchunk,
                   perr, lastReadByte, retVal, retErr, produced, called,
                   readFailed, cbFailed, lateReads>>
    /\ UNCHANGED <<pipeData, pipeWClosed, rbuf, wnext, lwErrClosed, lwCtxDone, gpc,
                   completeCalls, expectedSha, kpc, wlen, callPre, commitCtxDone,
                   errTaken, results>>
    /\ UNCHANGED <<initiates, newResult, completes, extvars>>

\* UploadLayerPart succeeds, GetStatus succeeds: Offset grows, callback returns nil
C_UploadOk ==
    /\ cpc = "callback"
    /\ uploads' = Append(uploads,
            UploadCall(cchunk[1], "nil", "nil",
                       statusOffset + (cchunk[1].BytesEnd - cchunk[1].BytesBegin) + 1))
    /\ statusOffset' = statusOffset + (cchunk[1].BytesEnd - cchunk[1].BytesBegin) + 1
    /\ cbDone' = cbDone + 1
    /\ cchunk' = <<>>
    /\ cpc' = "select"
    /\ UNCHANGED <<input, rpos, chunkSize, queueSize, readChannel, rcClosed,
                   errClosed, cancelled, atCancel, ppc, currentBytes, currentPart, pchunk,
                   perr, lastReadByte, retVal, retErr, produced, called,
                   readFailed, cbFailed, lateReads>>
    /\ UNCHANGED <<pipeData, pipeWClosed, rbuf, wnext, lwErrClosed, lwCtxDone, gpc,
                   completeCalls, expectedSha, kpc, wlen, callPre, commitCtxDone,
                   errTaken, results>>
    /\ UNCHANGED <<initiates, newResult, completes, extvars>>

\* UploadLayerPart succeeds, GetStatus fails: the callback returns that error
C_StatusFail ==
    /\ cpc = "callback"
    /\ uploads' = Append(uploads, UploadCall(cchunk[1], "nil", "StatusErr", statusOffset))
    /\ cbDone' = cbDone + 1
    /\ cbFailed' = TRUE
    /\ cchunk' = <<>>
    /\ Return(0, "StatusErr")
    /\ UNCHANGED <<input, rpos, chunkSize, queueSize, readChannel, rcClosed,
                   errClosed, cancelled, atCancel, ppc, currentBytes, currentPart, pchunk,
                   perr, lastReadByte, produced, called, readFailed, lateReads>>
    /\ UNCHANGED <<pipeData, pipeWClosed, rbuf, wnext, lwErrClosed, lwCtxDone, gpc,
                   statusOffset, completeCalls, expectedSha, kpc, wlen, callPre,
                   commitCtxDone, errTaken, results>>
    /\ UNCHANGED <<initiates, newResult, completes, extvars>>

\* UploadLayerPart fails: the callback returns its error
C_UploadFail ==
    /\ cpc = "callback"
    /\ uploads' = Append(uploads, UploadCall(cchunk[1], "UploadErr", "UploadErr", statusOffset))
    /\ cbDone' = cbDone + 1
    /\ cbFailed' = TRUE
    /\ cchunk' = <<>>
    /\ Return(0, "UploadErr")
    /\ UNCHANGED <<input, rpos, chunkSize, queueSize, readChannel, rcClosed,
                   errClosed, cancelled, atCancel, ppc, currentBytes, currentPart, pchunk,
                   perr, lastReadByte, produced, called, readFailed, lateReads>>
    /\ UNCHANGED <<pipeData, pipeWClosed, rbuf, wnext, lwErrClosed, lwCtxDone, gpc,
                   statusOffset, completeCalls, expectedSha, kpc, wlen, callPre,
                   commitCtxDone, errTaken, results>>
    /\ UNCHANGED <<initiates, newResult, completes, extvars>>

\* UploadLayerPart never returns
C_UploadHang ==
    /\ cpc = "callback"
    /\ cpc' = "hung"
    /\ UNCHANGED <<input, rpos, chunkSize, queueSize, readChannel, rcClosed,
                   errClosed, cancelled, atCancel, ppc, currentBytes, currentPart, pchunk,
                   perr, cchunk, lastReadByte, retVal, retErr, produced, called,
                   cbDone, readFailed, cbFailed, lateReads>>
    /\ UNCHANGED <<lwvars, extvars>>

\* ---- the goroutine of newLayerWriter ------------------------------------
\* ChunkedProcessor returned: if err != nil { lw.err <- err }
G_Returned ==
    /\ gpc = "run"
    /\ cpc = "returned"
    /\ gpc' = IF retErr # "nil" THEN "sendErr" ELSE "closeErr"
    /\ UNCHANGED cpvars
    /\ UNCHANGED <<pipeData, pipeWClosed, rbuf, wnext, lwErrClosed, lwCtxDone,
                   statusOffset, uploads, completeCalls, expectedSha, kpc, wlen,
                   callPre, commitCtxDone, errTaken, results>>
    /\ UNCHANGED <<initiates, newResult, completes, extvars>>

\* defer close(lw.err)
G_CloseErr ==
    /\ gpc = "closeErr"
    /\ lwErrClosed' = TRUE
    /\ gpc' = "cancel"
    /\ UNCHANGED cpvars
    /\ UNCHANGED <<pipeData, pipeWClosed, rbuf, wnext, lwCtxDone, statusOffset,
                   uploads, completeCalls, expectedSha, kpc, wlen, callPre,
                   commitCtxDone, errTaken, results>>
    /\ UNCHANGED <<initiates, newResult, completes, extvars>>

\* defer cancel()
G_Cancel ==
    /\ gpc = "cancel"
    /\ lwCtxDone' = TRUE
    /\ gpc' = "done"
    /\ UNCHANGED cpvars
    /\ UNCHANGED <<pipeData, pipeWClosed, rbuf, wnext, lwErrClosed, statusOffset,
                   uploads, completeCalls, expectedSha, kpc, wlen, callPre,
                   commitCtxDone, errTaken, results>>
    /\ UNCHANGED <<initiates, newResult, completes, extvars>>

\* ---- the caller: layerWriter.Write --------------------------------------
\* a call returns
Finish(op, n, err, completed) ==
    /\ results' = Append(results, [op |-> op, n |-> n, err |-> err,
                                   completed |-> completed,
                                   stopped |-> callPre.stopped,
                                   taken |-> callPre.taken])
    /\ kpc' = "idle"

\* the caller calls lw.Write(b) with len(b) = n
K_Write ==
    /\ kpc = "idle"
    /\ Len(results) < MaxCalls
    /\ \E n \in 1..MaxWrite : wlen' = n
    /\ callPre' = [stopped |-> lwErrClosed \/ lwCtxDone, taken |-> errTaken]
    /\ kpc' = "wsel"
    /\ UNCHANGED cpvars
    /\ UNCHANGED <<pipeData, pipeWClosed, rbuf, wnext, lwErrClosed, lwCtxDone, gpc,
                   statusOffset, uploads, completeCalls, expectedSha,
                   commitCtxDone, errTaken, results>>
    /\ UNCHANGED <<initiates, newResult, completes, extvars>>

\* a Write that returns the error while the goroutine goes on offering it
W_SelErr_Resend ==
    /\ kpc = "wsel"
    /\ gpc = "sendErr"
    /\ errTaken' = TRUE
    /\ Finish("Write", 0, retErr, FALSE)
    /\ UNCHANGED cpvars
    /\ UNCHANGED <<pipeData, pipeWClosed, rbuf, wnext, lwErrClosed, lwCtxDone, gpc,
                   statusOffset, uploads, completeCalls, expectedSha, wlen,
                   callPre, commitCtxDone>>
    /\ UNCHANGED <<initiates, newResult, completes, extvars>>

\* select: case err := <-lw.err, the goroutine is blocked in lw.err <- err
W_SelErr ==
    /\ kpc = "wsel"
    /\ gpc = "sendErr"
    /\ gpc' = "closeErr"
    /\ errTaken' = TRUE
    /\ Finish("Write", 0, retErr, FALSE)
    /\ UNCHANGED cpvars
    /\ UNCHANGED <<pipeData, pipeWClosed, rbuf, wnext, lwErrClosed, lwCtxDone,
                   statusOffset, uploads, completeCalls, expectedSha, wlen,
                   callPre, commitCtxDone>>
    /\ UNCHANGED <<initiates, newResult, completes, extvars>>

\* select: case err := <-lw.err, lw.err is closed: err is nil
W_SelClosed ==
    /\ kpc = "wsel"
    /\ lwErrClosed
    /\ Finish("Write", 0, "nil", FALSE)
    /\ UNCHANGED cpvars
    /\ UNCHANGED <<pipeData, pipeWClosed, rbuf, wnext, lwErrClosed, lwCtxDone, gpc,
                   statusOffset, uploads, completeCalls, expectedSha, wlen,
                   callPre, commitCtxDone, errTaken>>
    /\ UNCHANGED <<initiates, newResult, completes, extvars>>

\* select: case <-lw.ctx.Done()
W_SelDone ==
    /\ kpc = "wsel"
    /\ lwCtxDone
    /\ Finish("Write", 0, "WriteClosedErr", FALSE)
    /\ UNCHANGED cpvars
    /\ UNCHANGED <<pipeData, pipeWClosed, rbuf, wnext, lwErrClosed, lwCtxDone, gpc,
                   statusOffset, uploads, completeCalls, expectedSha, wlen,
                   callPre, commitCtxDone, errTaken>>
    /\ UNCHANGED <<initiates, newResult, completes, extvars>>

\* select: default, then lw.buf.Write(b) on an open pipe
W_SelDefault ==
    /\ kpc = "wsel"
    /\ gpc # "sendErr" /\ ~lwErrClosed /\ ~lwCtxDone
    /\ ~pipeWClosed
    /\ pipeData' = [i \in 1..wlen |-> wnext + i]
    /\ wnext' = wnext + wlen
    /\ kpc' = "wpipe"
    /\ UNCHANGED cpvars
    /\ UNCHANGED <<pipeWClosed, rbuf, lwErrClosed, lwCtxDone, gpc, statusOffset,
                   uploads, completeCalls, expectedSha, wlen, callPre,
                   commitCtxDone, errTaken, results>>
    /\ UNCHANGED <<initiates, newResult, completes, extvars>>

\* select: default, then lw.buf.Write(b) on a closed pipe: io.ErrClosedPipe
W_SelDefaultClosed ==
    /\ kpc = "wsel"
    /\ gpc # "sendErr" /\ ~lwErrClosed /\ ~lwCtxDone
    /\ pipeWClosed
    /\ Finish("Write", 0, "ErrClosedPipe", FALSE)
    /\ UNCHANGED cpvars
    /\ UNCHANGED <<pipeData, pipeWClosed, rbuf, wnext, lwErrClosed, lwCtxDone, gpc,
                   statusOffset, uploads, completeCalls, expectedSha, wlen,
                   callPre, commitCtxDone, errTaken>>
    /\ UNCHANGED <<initiates, newResult, completes, extvars>>

\* lw.buf.Write(b) returns once the reader has taken every byte of b
W_PipeDone ==
    /\ kpc = "wpipe"
    /\ pipeData = <<>>
    /\ Finish("Write", wlen, "nil", FALSE)
    /\ UNCHANGED cpvars
    /\ UNCHANGED <<pipeData, pipeWClosed, rbuf, wnext, lwErrClosed, lwCtxDone, gpc,
                   statusOffset, uploads, completeCalls, expectedSha, wlen,
                   callPre, commitCtxDone, errTaken>>
    /\ UNCHANGED <<initiates, newResult, completes, extvars>>

\* ---- the caller: layerWriter.Close and layerWriter.Truncate --------------
\* a Close that closes the write end of the pipe
K_Close_ClosesPipe ==
    /\ kpc = "idle"
    /\ Len(results) < MaxStubCall
    /\ pipeWClosed' = TRUE
    /\ results' = Append(results, [op |-> "Close", n |-> 0, err |-> "NotImplemented",
                                   completed |-> FALSE,
                                   stopped |-> lwErrClosed \/ lwCtxDone,
                                   taken |-> errTaken])
    /\ UNCHANGED cpvars
    /\ UNCHANGED <<pipeData, rbuf, wnext, lwErrClosed, lwCtxDone, gpc,
                   statusOffset, uploads, completeCalls, expectedSha, kpc, wlen,
                   callPre, commitCtxDone, errTaken>>
    /\ UNCHANGED <<initiates, newResult, completes, extvars>>

\* lw.Close(): return errors.New("lw.Close: not implemented")
K_Close ==
    /\ kpc = "idle"
    /\ Len(results) < MaxStubCall
    /\ results' = Append(results, [op |-> "Close", n |-> 0, err |-> "NotImplemented",
                                   completed |-> FALSE,
                                   stopped |-> lwErrClosed \/ lwCtxDone,
                                   taken |-> errTaken])
    /\ UNCHANGED cpvars
    /\ UNCHANGED <<pipeData, pipeWClosed, rbuf, wnext, lwErrClosed, lwCtxDone, gpc,
                   statusOffset, uploads, completeCalls, expectedSha, kpc, wlen,
                   callPre, commitCtxDone, errTaken>>
    /\ UNCHANGED <<initiates, newResult, completes, extvars>>

\* lw.Truncate(size): return errors.New("ecr.layer.truncate: not implemented")
K_Truncate ==
    /\ kpc = "idle"
    /\ Len(results) < MaxStubCall
    /\ results' = Append(results, [op |-> "Truncate", n |-> 0, err |-> "NotImplemented",
                                   completed |-> FALSE,
                                   stopped |-> lwErrClosed \/ lwCtxDone,
                                   taken |-> errTaken])
    /\ UNCHANGED cpvars
    /\ UNCHANGED <<pipeData, pipeWClosed, rbuf, wnext, lwErrClosed, lwCtxDone, gpc,
                   statusOffset, uploads, completeCalls, expectedSha, kpc, wlen,
                   callPre, commitCtxDone, errTaken>>
    /\ UNCHANGED <<initiates, newResult, completes, extvars>>

\* ---- the caller: layerWriter.Commit -------------------------------------
\* the caller calls lw.Commit(ctx, size, expected): lw.buf.Close()
K_Commit ==
    /\ kpc = "idle"
    /\ Len(results) < MaxCalls
    /\ pipeWClosed' = TRUE
    /\ callPre' = [stopped |-> lwErrClosed \/ lwCtxDone, taken |-> errTaken]
    /\ commitCtxDone' = FALSE
    /\ kpc' = "csel"
    /\ UNCHANGED cpvars
    /\ UNCHANGED <<pipeData, rbuf, wnext, lwErrClosed, lwCtxDone, gpc, statusOffset,
                   uploads, completeCalls, expectedSha, wlen, errTaken, results>>
    /\ UNCHANGED <<initiates, newResult, completes, extvars>>

\* the caller of Commit cancels the ctx it passed
K_CancelCtx ==
    /\ kpc = "csel"
    /\ ~commitCtxDone
    /\ commitCtxDone' = TRUE
    /\ UNCHANGED cpvars
    /\ UNCHANGED <<pipeData, pipeWClosed, rbuf, wnext, lwErrClosed, lwCtxDone, gpc,
                   statusOffset, uploads, completeCalls, expectedSha, kpc, wlen,
                   callPre, errTaken, results>>
    /\ UNCHANGED <<initiates, newResult, completes, extvars>>

\* a Commit that receives the error and goes on to CompleteLayerUpload
Commit_SelErr_Ignored ==
    /\ kpc = "csel"
    /\ gpc = "sendErr"
    /\ gpc' = "closeErr"
    /\ errTaken' = TRUE
    /\ kpc' = "complete"
    /\ UNCHANGED cpvars
    /\ UNCHANGED <<pipeData, pipeWClosed, rbuf, wnext, lwErrClosed, lwCtxDone,
                   statusOffset, uploads, completeCalls, expectedSha, wlen,
                   callPre, commitCtxDone, results>>
    /\ UNCHANGED <<initiates, newResult, completes, extvars>>

\* select: case err := <-lw.err, the goroutine is blocked in lw.err <- err
Commit_SelErr ==
    /\ kpc = "csel"
    /\ gpc = "sendErr"
    /\ gpc' = "closeErr"
    /\ errTaken' = TRUE
    /\ Finish("Commit", 0, retErr, FALSE)
    /\ UNCHANGED cpvars
    /\ UNCHANGED <<pipeData, pipeWClosed, rbuf, wnext, lwErrClosed, lwCtxDone,
                   statusOffset, uploads, completeCalls, expectedSha, wlen,
                   callPre, commitCtxDone>>
    /\ UNCHANGED <<initiates, newResult, completes, extvars>>

\* a Commit that does not wait for the goroutine before CompleteLayerUpload
Commit_SelNil_NoWait ==
    /\ kpc = "csel"
    /\ kpc' = "complete"
    /\ UNCHANGED cpvars
    /\ UNCHANGED <<pipeData, pipeWClosed, rbuf, wnext, lwErrClosed, lwCtxDone, gpc,
                   statusOffset, uploads, completeCalls, expectedSha, wlen,
                   callPre, commitCtxDone, errTaken, results>>
    /\ UNCHANGED <<initiates, newResult, completes, extvars>>

\* select: case err := <-lw.err on the closed lw.err (err is nil), or
\* case <-lw.ctx.Done(): Commit goes on to CompleteLayerUpload
Commit_SelNil ==
    /\ kpc = "csel"
    /\ (lwErrClosed \/ lwCtxDone)
    /\ kpc' = "complete"
    /\ UNCHANGED cpvars
    /\ UNCHANGED <<pipeData, pipeWClosed, rbuf, wnext, lwErrClosed, lwCtxDone, gpc,
                   statusOffset, uploads, completeCalls, expectedSha, wlen,
                   callPre, commitCtxDone, errTaken, results>>
    /\ UNCHANGED <<initiates, newResult, completes, extvars>>

\* number of bytes of the UploadLayerPart calls that returned nil
RECURSIVE SumOk(_)
SumOk(us) ==
    IF us = <<>> THEN 0
    ELSE (IF Head(us).err = "nil" THEN Len(Head(us).input.LayerPartBlob) ELSE 0)
         + SumOk(Tail(us))

UploadedBytes == SumOk(uploads)

\* a Commit that takes LayerAlreadyExistsException as success whatever the
\* algorithm of the expected digest
CommitResult_AnyAlgorithm(answer, sha) ==
    IF answer = "LayerAlreadyExistsException" THEN "nil"
    ELSE IF answer = "OtherErr" THEN answer
    ELSE IF answer = "ActualDigestDiffers" THEN "DigestErr"
    ELSE "nil"

\* a Commit that does not compare the digest CompleteLayerUpload returned
CommitResult_NoDigestCheck(answer, sha) ==
    IF answer = "LayerAlreadyExistsException"
    THEN IF sha THEN "nil" ELSE answer
    ELSE IF answer = "OtherErr" THEN answer
    ELSE "nil"

\* what Commit returns for an answer of CompleteLayerUpload
CommitResult(answer, sha) ==
    IF answer = "LayerAlreadyExistsException"
    THEN IF sha THEN "nil" ELSE answer
    ELSE IF answer = "OtherErr" THEN answer
    ELSE IF answer = "ActualDigestDiffers" THEN "DigestErr"
    ELSE "nil"

\* CompleteLayerUpload and the rest of Commit
Commit_Complete ==
    /\ kpc = "complete"
    /\ completeCalls' = completeCalls + 1
    /\ \E answer \in {"ActualDigestExpected", "ActualDigestDiffers",
                      "LayerAlreadyExistsException", "OtherErr"} :
          /\ Finish("Commit", 0, CommitResult(answer, expectedSha), TRUE)
          /\ completes' = Append(completes,
                                 [answer   |-> answer,
                                  call     |-> Len(results) + 1,
                                  uploaded |-> UploadedBytes,
                                  written  |-> wnext,
                                  running  |-> cpc = "callback"])
    /\ UNCHANGED cpvars
    /\ UNCHANGED <<pipeData, pipeWClosed, rbuf, wnext, lwErrClosed, lwCtxDone, gpc,
                   statusOffset, uploads, expectedSha, wlen, callPre,
                   commitCtxDone, errTaken>>
    /\ UNCHANGED <<initiates, newResult, extvars>>

NextLW ==
    \/ NewLayerWriterOk \/ NewLayerWriterFail
    \/ P_Select \/ P_PipeRead \/ P_PipeEOF \/ P_Send \/ P_Close
    \/ C_RecvChunk \/ C_RecvClosed
    \/ C_UploadOk \/ C_StatusFail \/ C_UploadFail \/ C_UploadHang
    \/ C_Cancel \/ C_DrainChunk \/ C_DrainEnd \/ C_CloseErr
    \/ G_Returned \/ G_CloseErr \/ G_Cancel
    \/ K_Write \/ W_SelErr \/ W_SelClosed \/ W_SelDone \/ W_SelDefault
    \/ W_SelDefaultClosed \/ W_PipeDone
    \/ K_Commit \/ K_CancelCtx \/ Commit_SelErr \/ Commit_SelNil
    \/ Commit_Complete

SpecLW == InitLW /\ [][NextLW]_vars

\* Every goroutine that can take a step does; the caller need not start a
\* new call, but a call in progress keeps going.
ProducerStepLW == P_Select \/ P_PipeRead \/ P_PipeEOF \/ P_Send \/ P_Close
ConsumerStepLW ==
    \/ C_RecvChunk \/ C_RecvClosed
    \/ C_UploadOk \/ C_StatusFail \/ C_UploadFail \/ C_UploadHang
    \/ C_Cancel \/ C_DrainChunk \/ C_DrainEnd \/ C_CloseErr
GoroutineStepLW == G_Returned \/ G_CloseErr \/ G_Cancel
CallStepLW ==
    \/ NewLayerWriterOk \/ NewLayerWriterFail
    \/ W_SelErr \/ W_SelClosed \/ W_SelDone \/ W_SelDefault
    \/ W_SelDefaultClosed \/ W_PipeDone
    \/ Commit_SelErr \/ Commit_SelNil \/ Commit_Complete

FairSpecLW ==
    /\ SpecLW
    /\ WF_vars(ProducerStepLW)
    /\ WF_vars(ConsumerStepLW)
    /\ WF_vars(GoroutineStepLW)
    /\ WF_vars(CallStepLW)

\* ==== properties of ChunkedProcessor ======================================
Returning == cpc \in {"cancel", "drain", "closeErr", "returned"}

\* ---- ecrPusher.pushBlob ------------------------------------------------------
\* the answers of BatchCheckLayerAvailability to a request for one digest
CheckOutputs ==
    {[err |-> "CheckErr", Layers |-> <<>>, Failures |-> 0]}
    \cup {[err |-> "nil", Layers |-> <<>>, Failures |-> f] : f \in {0, 1}}
    \cup {[err |-> "nil", Layers |-> <<a>>, Failures |-> 0] :
             a \in {"AVAILABLE", "UNAVAILABLE"}}

checkBlobExistence(out) ==
    IF out.err # "nil" THEN [exists |-> FALSE, err |-> out.err]
    ELSE IF Len(out.Layers) = 0
         THEN [exists |-> FALSE,
               err |-> IF out.Failures > 0 THEN "errLayerNotFound" ELSE "ErrInvalid"]
         ELSE [exists |-> out.Layers[1] = "AVAILABLE", err |-> "nil"]

\* Push of a blob descriptor with a sha256 digest: nothing has been called yet
InitPush ==
    /\ BeforeNewLayerWriter
    /\ expectedSha = TRUE
    /\ kpc = "push"
    /\ IdleMW
    /\ IdleST
    /\ checks = <<>>
    /\ statusSet = <<>>
    /\ pushResult = [returned |-> FALSE, writer |-> FALSE, err |-> "nil"]

\* a pushBlob that starts the upload whatever the check says
PushBlob_NoCheck ==
    /\ kpc = "push"
    /\ \E out \in CheckOutputs :
          /\ checks' = Append(checks, out)
          /\ statusSet' = Append(statusSet, StatusStarted)
          /\ kpc' = "new"
          /\ UNCHANGED pushResult
    /\ UNCHANGED <<cpvars, mwvars, stvars>>
    /\ UNCHANGED <<pipeData, pipeWClosed, rbuf, wnext, lwErrClosed, lwCtxDone, gpc,
                   statusOffset, uploads, completeCalls, expectedSha, wlen,
                   callPre, commitCtxDone, errTaken, results, initiates,
                   newResult, completes>>

\* a pushBlob that calls newLayerWriter without markStatusStarted
PushBlob_NoStatus ==
    /\ kpc = "push"
    /\ \E out \in CheckOutputs :
          LET c == checkBlobExistence(out)
          IN  /\ checks' = Append(checks, out)
              /\ IF c.err # "nil"
                 THEN /\ pushResult' = [returned |-> TRUE, writer |-> FALSE, err |-> c.err]
                      /\ kpc' = "noWriter"
                      /\ UNCHANGED statusSet
                 ELSE IF c.exists
                 THEN /\ statusSet' = Append(statusSet, StatusExists)
                      /\ pushResult' = [returned |-> TRUE, writer |-> FALSE,
                                        err |-> "ErrAlreadyExists"]
                      /\ kpc' = "noWriter"
                 ELSE /\ kpc' = "new"
                      /\ UNCHANGED <<statusSet, pushResult>>
    /\ UNCHANGED <<cpvars, mwvars, stvars>>
    /\ UNCHANGED <<pipeData, pipeWClosed, rbuf, wnext, lwErrClosed, lwCtxDone, gpc,
                   statusOffset, uploads, completeCalls, expectedSha, wlen,
                   callPre, commitCtxDone, errTaken, results, initiates,
                   newResult, completes>>

\* pushBlob up to its call of newLayerWriter: checkBlobExistence, then return
\* the error, or markStatusExists and ErrAlreadyExists, or markStatusStarted
PushBlob ==
    /\ kpc = "push"
    /\ \E out \in CheckOutputs :
          LET c == checkBlobExistence(out)
          IN  /\ checks' = Append(checks, out)
              /\ IF c.err # "nil"
                 THEN /\ pushResult' = [returned |-> TRUE, writer |-> FALSE, err |-> c.err]
                      /\ kpc' = "noWriter"
                      /\ UNCHANGED statusSet
                 ELSE IF c.exists
                 THEN /\ statusSet' = Append(statusSet, StatusExists)
                      /\ pushResult' = [returned |-> TRUE, writer |-> FALSE,
                                        err |-> "ErrAlreadyExists"]
                      /\ kpc' = "noWriter"
                 ELSE /\ statusSet' = Append(statusSet, StatusStarted)
                      /\ kpc' = "new"
                      /\ UNCHANGED pushResult
    /\ UNCHANGED <<cpvars, mwvars, stvars>>
    /\ UNCHANGED <<pipeData, pipeWClosed, rbuf, wnext, lwErrClosed, lwCtxDone, gpc,
                   statusOffset, uploads, completeCalls, expectedSha, wlen,
                   callPre, commitCtxDone, errTaken, results, initiates,
                   newResult, completes>>

\* Push of a blob and every operation of the writer it returns
NextPush == PushBlob \/ NewLayerWriterNoPartSize \/ K_Close \/ K_Truncate \/ NextLW

SpecPush == InitPush /\ [][NextPush]_vars

\* ---- the status record of a ref under concurrent Push calls -------------------
\* what the callback stores after a part of n bytes, from the record it holds
AfterPart(st, n) == [st EXCEPT !.Offset = st.Offset + n + 1, !.UpdatedAt = TRUE]

\* SetStatus(ref, st) by the caller `by`
SetStatus(by, st, n) ==
    /\ trStatus' = st
    /\ setLog' = Append(setLog, [by |-> by, status |-> st, prev |-> trStatus, n |-> n])

\* the writer exists and pushBlob has stored the record with markStatusStarted
InitST ==
    /\ input = <<>>
    /\ chunkSize = 1
    /\ queueSize = layerQueueSize
    /\ InitCP
    /\ IdleLW
    /\ expectedSha = TRUE
    /\ IdleMW
    /\ StartedPush
    /\ IdleST

\* the callback is called for a part of n bytes and UploadLayerPart succeeds
ST_UploadOk ==
    /\ cbpc = "idle"
    /\ cbParts < MaxCalls
    /\ \E n \in 1..MaxPart : cbBytes' = n
    /\ cbpc' = "uploaded"
    /\ UNCHANGED <<cpvars, lwvars, mwvars, pushvars, trStatus, cbStatus, cbParts, setLog,
                   pushes>>

\* UploadLayerPart fails: the callback returns the error, the transfer ends
ST_UploadFail ==
    /\ cbpc = "idle"
    /\ cbParts < MaxCalls
    /\ cbpc' = "failed"
    /\ UNCHANGED <<cpvars, lwvars, mwvars, pushvars, trStatus, cbStatus, cbBytes, cbParts,
                   setLog, pushes>>

\* status, err = lw.tracker.GetStatus(lw.ref) with err == nil
ST_GetStatus ==
    /\ cbpc = "uploaded"
    /\ cbStatus' = trStatus
    /\ cbpc' = "got"
    /\ UNCHANGED <<cpvars, lwvars, mwvars, pushvars, trStatus, cbBytes, cbParts, setLog,
                   pushes>>

\* GetStatus fails: the callback returns the error, the transfer ends
ST_GetStatusFail ==
    /\ cbpc = "uploaded"
    /\ cbpc' = "failed"
    /\ UNCHANGED <<cpvars, lwvars, mwvars, pushvars, trStatus, cbStatus, cbBytes, cbParts,
                   setLog, pushes>>

\* status.Offset += bytesRead + 1; status.UpdatedAt = time.Now();
\* lw.tracker.SetStatus(lw.ref, status); return nil
ST_SetStatus ==
    /\ cbpc = "got"
    /\ SetStatus("callback", AfterPart(cbStatus, cbBytes), cbBytes)
    /\ cbParts' = cbParts + 1
    /\ cbpc' = "idle"
    /\ UNCHANGED <<cpvars, lwvars, mwvars, pushvars, cbStatus, cbBytes, pushes>>

\* another Push of the same descriptor finds the layer missing: markStatusStarted
ST_PushStarted ==
    /\ pushes < MaxPushCalls
    /\ pushes' = pushes + 1
    /\ SetStatus("markStatusStarted", StatusStarted, 0)
    /\ UNCHANGED <<cpvars, lwvars, mwvars, pushvars, cbStatus, cbBytes, cbParts, cbpc>>

\* another Push of the same descriptor finds the layer AVAILABLE: markStatusExists
ST_PushExists ==
    /\ pushes < MaxPushCalls
    /\ pushes' = pushes + 1
    /\ SetStatus("markStatusExists", StatusExists, 0)
    /\ UNCHANGED <<cpvars, lwvars, mwvars, pushvars, cbStatus, cbBytes, cbParts, cbpc>>

NextST ==
    \/ ST_UploadOk \/ ST_UploadFail \/ ST_GetStatus \/ ST_GetStatusFail
    \/ ST_SetStatus \/ ST_PushStarted \/ ST_PushExists

SpecST == InitST /\ [][NextST]_vars

\* ---- manifestWriter ---------------------------------------------------------
\* the byte slices a caller passes to manifestWriter.Write
Payloads == UNION {[1..n -> {1, 2}] : n \in 1..MaxWrite}

RECURSIVE Flatten(_)
Flatten(ss) == IF ss = <<>> THEN <<>> ELSE Head(ss) \o Flatten(Tail(ss))

\* pushManifest has returned the writer: its buffer is empty
InitMW ==
    /\ input = <<>>
    /\ chunkSize = 1
    /\ queueSize = layerQueueSize
    /\ InitCP
    /\ IdleLW
    /\ expectedSha = TRUE
    /\ IdleMW
    /\ IdleST
    /\ StartedPush

\* a Write that sends what it is given to the store
MW_Write_Puts ==
    /\ Len(mwResults) < MaxCalls
    /\ \E b \in Payloads :
          /\ mwBuf' = mwBuf \o b
          /\ mwWrites' = Append(mwWrites, b)
          /\ putImages' = Append(putImages, [manifest |-> b, call |-> Len(mwResults) + 1])
          /\ mwResults' = Append(mwResults, [op |-> "Write", n |-> Len(b), err |-> "nil",
                                             answer |-> "none"])
    /\ UNCHANGED <<cpvars, lwvars, pushvars, stvars, mwOffset>>

\* mw.Write(b): return mw.buf.Write(b)
MW_Write ==
    /\ Len(mwResults) < MaxCalls
    /\ \E b \in Payloads :
          /\ mwBuf' = mwBuf \o b
          /\ mwWrites' = Append(mwWrites, b)
          /\ mwResults' = Append(mwResults, [op |-> "Write", n |-> Len(b), err |-> "nil",
                                             answer |-> "none"])
    /\ UNCHANGED <<cpvars, lwvars, pushvars, stvars, putImages, mwOffset>>

\* what Commit returns for an answer of PutImage
MWCommitResult(answer) ==
    IF answer = "PutErr" THEN "PutErr"
    ELSE IF answer = "NilOutput" THEN "NilOutputErr"
    ELSE IF answer = "DigestDiffers" THEN "DigestMismatch"
    ELSE "nil"

\* mw.Commit(ctx, size, expected): PutImage with mw.buf.String(); when it
\* succeeds and GetStatus succeeds, Offset = len(manifest); then the checks
\* of the output
MW_Commit ==
    /\ Len(mwResults) < MaxCalls
    /\ \E answer \in {"PutErr", "NilOutput", "DigestDiffers", "DigestExpected"},
          statusErr \in BOOLEAN :
          /\ putImages' = Append(putImages, [manifest |-> mwBuf, call |-> Len(mwResults) + 1])
          /\ mwOffset' = IF answer # "PutErr" /\ ~statusErr THEN Len(mwBuf) ELSE mwOffset
          /\ mwResults' = Append(mwResults, [op |-> "Commit", n |-> 0,
                                             err |-> MWCommitResult(answer),
                                             answer |-> answer])
    /\ UNCHANGED <<cpvars, lwvars, pushvars, stvars, mwBuf, mwWrites>>

NextMW == MW_Write \/ MW_Commit

SpecMW == InitMW /\ [][NextMW]_vars

\* C1: over a finite source and with a callback that returns, ChunkedProcessor
\* eventually returns, and when the callback or a read failed it returns one
\* of those errors.
C1_EventuallyReturns ==
    <>(/\ cpc = "returned"
       /\ (cbFailed \/ readFailed) => retErr \in {"CallbackErr", "ReadErr"})

\* C2: once ChunkedProcessor has returned, readIntoChunks has terminated,
\* readChannel is closed and empty and the source is not read any more.
C2_ReturnedProducerGone ==
    cpc = "returned" =>
        /\ ppc = "done"
        /\ rcClosed
        /\ readChannel = <<>>
        /\ lateReads = 0

\* C2 witness: the call returned an error after discarding chunks it never
\* passed to the callback.
C2_Witness ==
    /\ cpc = "returned"
    /\ retErr # "nil"
    /\ Len(produced) > Len(called)

\* C8: on success the callback has been invoked exactly once for every chunk
\* the producer enqueued, in the order they were read (Part and byte offset
\* strictly increasing), and an invocation begins only after the one before
\* it has returned.
C8_CallbackOncePerChunkInOrder ==
    /\ Len(called) <= Len(produced)
    /\ \A i \in 1..Len(called) : called[i] = produced[i]
    /\ \A i \in 1..(Len(called) - 1) :
          /\ called[i + 1].Part > called[i].Part
          /\ called[i + 1].BytesBegin > called[i].BytesBegin
    /\ Len(called) = cbDone + (IF cpc = "callback" THEN 1 ELSE 0)
    /\ (Returning /\ retErr = "nil") => called = produced

\* C8 witness: a successful transfer of several chunks through a queue that
\* is smaller than their number.
C8_Witness ==
    /\ cpc = "returned"
    /\ retErr = "nil"
    /\ Len(called) >= 3
    /\ queueSize < Len(called)

\* ceil(a / b)
CeilDiv(a, b) == (a + b - 1) \div b

\* C9: with a callback that never fails, an input of length L read in chunks
\* of S bytes gives ceil(L/S) callbacks, every chunk but the last of S bytes,
\* the last of L mod S bytes (S when S divides L), and the chunks' bytes in
\* callback order are the input.
C9_Chunking ==
    (cpc = "returned" /\ retErr = "nil") =>
        LET L == Len(input)
            S == chunkSize
            N == Len(called)
        IN  /\ N = CeilDiv(L, S)
            /\ \A i \in 1..(N - 1) : Len(called[i].Bytes) = S
            /\ N > 0 => Len(called[N].Bytes) = (IF L % S = 0 THEN S ELSE L % S)
            /\ Concat(called) = input

\* C9 witness: a successful transfer whose last chunk is short.
C9_Witness ==
    /\ cpc = "returned"
    /\ retErr = "nil"
    /\ Len(called) >= 2
    /\ Len(input) % chunkSize # 0

\* every chunk readChunk has returned so far, in order
AllChunks == produced \o pchunk

\* C10: every chunk has BytesEnd - BytesBegin + 1 = len(Bytes), the first
\* chunk begins at 0 and every later chunk begins right after the one before.
C10_Offsets ==
    /\ \A i \in 1..Len(AllChunks) :
          AllChunks[i].BytesEnd - AllChunks[i].BytesBegin + 1 = Len(AllChunks[i].Bytes)
    /\ Len(AllChunks) > 0 => AllChunks[1].BytesBegin = 0
    /\ \A i \in 1..(Len(AllChunks) - 1) :
          AllChunks[i + 1].BytesBegin = AllChunks[i].BytesEnd + 1

\* C10 witness: three chunks were read, the last one shorter than the others.
C10_Witness ==
    /\ Len(AllChunks) >= 3
    /\ Len(AllChunks[3].Bytes) < Len(AllChunks[1].Bytes)

\* ==== properties of the layer writer =====================================
UploadFailed == \E i \in 1..Len(uploads) : uploads[i].err # "nil"

\* C3: if an UploadLayerPart call returned an error, no Commit returns nil.
C3_NoCommitSuccessAfterFailedPart ==
    UploadFailed =>
        \A i \in 1..Len(results) :
            results[i].op = "Commit" => results[i].err # "nil"

C5_WriteAfterStopFails ==
    \A i \in 1..Len(results) :
        (results[i].op = "Write" /\ results[i].stopped) =>
            /\ results[i].err # "nil"
            /\ results[i].n = 0

\* C6: once the transfer has stopped because a part upload failed, a Write
\* in progress eventually returns.
C6_WriteReturnsAfterFailure ==
    (cpc = "returned" /\ retErr = "UploadErr" /\ kpc \in {"wsel", "wpipe"})
        ~> (kpc = "idle")

\* C7: when the ctx passed to Commit is cancelled while Commit waits for the
\* background transfer, Commit returns.
C7_CommitReturnsOnCancel ==
    (kpc = "csel" /\ commitCtxDone) ~> (kpc = "idle")

\* ==== further properties of ChunkedProcessor ==============================
\* C11: the chunks read from the source whose callback has not started, the
\* one the producer holds while it waits to enqueue included, are at most
\* queueSize.
C11_AtMostQueueSizeUnconsumed ==
    Len(readChannel) + Len(pchunk) <= queueSize

\* C12: when the callback returned an error, ChunkedProcessor returns that
\* error with the value 0 and the callback is not invoked again.
C12_CallbackErrorEndsTransfer ==
    cbFailed =>
        /\ Returning
        /\ retErr = "CallbackErr"
        /\ retVal = 0
        /\ Len(called) = cbDone

\* C12 witness: the callback failed on the second chunk of a transfer whose
\* later chunks were already read, and the call returned.
C12_Witness ==
    /\ cpc = "returned"
    /\ cbFailed
    /\ Len(called) = 2
    /\ Len(produced) > Len(called)

\* C13: when a read failed with a non-EOF error and the callback never
\* failed, ChunkedProcessor returns the read error with the value 0, and no
\* callback is running or started once it is returning.
C13_ReadErrorReturned ==
    (readFailed /\ ~cbFailed /\ Returning) =>
        /\ retErr = "ReadErr"
        /\ retVal = 0
        /\ Len(called) = cbDone

\* C13 witness: a read failed after some chunks were passed to the callback,
\* and the call returned.
C13_Witness ==
    /\ cpc = "returned"
    /\ readFailed
    /\ ~cbFailed
    /\ Len(called) >= 1

\* C14: on success ChunkedProcessor returns the BytesEnd of the last chunk,
\* the input's length minus one, and 0 for an empty input.
C14_ReturnsLastByteOffset ==
    (cpc = "returned" /\ retErr = "nil") =>
        /\ retVal = (IF Len(input) = 0 THEN 0 ELSE Len(input) - 1)
        /\ Len(called) > 0 => retVal = called[Len(called)].BytesEnd

\* C14 witness: a successful transfer of several chunks.
C14_Witness ==
    /\ cpc = "returned"
    /\ retErr = "nil"
    /\ Len(input) >= 3
    /\ Len(called) >= 2

\* C15: over an empty source ChunkedProcessor returns (0, nil) and never
\* invokes the callback.
C15_EmptySource ==
    (Len(input) = 0 /\ ~readFailed) =>
        /\ called = <<>>
        /\ Returning => (retVal = 0 /\ retErr = "nil")

\* C15 witness: the call over an empty source returned.
C15_Witness ==
    /\ Len(input) = 0
    /\ ~readFailed
    /\ cpc = "returned"

\* ---- further properties of layerWriter -------------------------------------
CommitCalls == {i \in 1..Len(results) : results[i].op = "Commit"}

\* every Commit that returned called CompleteLayerUpload, once; at each
\* CompleteLayerUpload every byte written had been uploaded by an
\* UploadLayerPart call that returned, none was running, and none was made
\* afterwards
CompleteOnceAfterAllParts ==
    /\ \A i \in CommitCalls : results[i].completed
    /\ completeCalls = Cardinality(CommitCalls)
    /\ Len(completes) = completeCalls
    /\ \A j \in 1..Len(completes) :
          /\ completes[j].uploaded = completes[j].written
          /\ ~completes[j].running
    /\ \A i \in 1..Len(uploads) : uploads[i].completes = 0

\* C16 as stated: on a push where every UploadLayerPart call succeeded, each
\* Commit calls CompleteLayerUpload exactly once, only after the part upload
\* of every written byte returned, and no part upload starts afterwards.
C16_CompleteOnceIfUploadsSucceed ==
    ~UploadFailed => CompleteOnceAfterAllParts

\* C16 amended: on a push where every part callback (UploadLayerPart and the
\* status update that follows it) succeeded, each Commit calls
\* CompleteLayerUpload exactly once, only after the part upload of every
\* written byte returned, and no part upload starts afterwards.
C16_CompleteOnceIfCallbacksSucceed ==
    ~cbFailed => CompleteOnceAfterAllParts

\* C16 witness: two Writes, at least two parts uploaded, then a Commit that
\* called CompleteLayerUpload, with no callback failure.
C16_Witness ==
    /\ ~cbFailed
    /\ Len(results) = 3
    /\ results[1].op = "Write" /\ results[2].op = "Write"
    /\ results[3].op = "Commit"
    /\ Len(uploads) >= 2
    /\ Len(completes) = 1
    /\ completes[1].written >= 2

RECURSIVE SumLen(_)
SumLen(us) ==
    IF us = <<>> THEN 0 ELSE Len(Head(us).input.LayerPartBlob) + SumLen(Tail(us))

\* the UploadLayerPart calls carry, in call order, contiguous ranges from 0
\* that hold the bytes written at those offsets (the byte at offset i is i + 1)
\* and together are as long as what the caller wrote
PartsCoverWritten ==
    /\ \A k \in 1..Len(uploads) :
          LET u == uploads[k].input
          IN  /\ u.PartFirstByte = (IF k = 1 THEN 0 ELSE uploads[k - 1].input.PartLastByte + 1)
              /\ u.PartLastByte = u.PartFirstByte + Len(u.LayerPartBlob) - 1
              /\ u.LayerPartBlob = [j \in 1..Len(u.LayerPartBlob) |-> u.PartFirstByte + j]
    /\ SumLen(uploads) = wnext

\* C17: when a Commit has returned nil, the UploadLayerPart calls carry
\* contiguous byte ranges from 0 holding the bytes written at those offsets,
\* and the sum of the part lengths is the total length written.
C17_CommitSuccessPartsCoverWritten ==
    (\E i \in CommitCalls : results[i].err = "nil") => PartsCoverWritten

\* C18: when CompleteLayerUpload fails with LayerAlreadyExistsException,
\* Commit returns nil if and only if the expected digest starts with
\* "sha256:"; with another algorithm, and for every other error of
\* CompleteLayerUpload, Commit returns that error unchanged.
C18_LayerAlreadyExists ==
    \A j \in 1..Len(completes) :
        LET err == results[completes[j].call].err
        IN  /\ completes[j].answer = "LayerAlreadyExistsException" =>
                  /\ err = "nil" <=> expectedSha
                  /\ ~expectedSha => err = "LayerAlreadyExistsException"
            /\ completes[j].answer = "OtherErr" => err = "OtherErr"

\* C18 witness: after a Write whose bytes were uploaded, CompleteLayerUpload
\* answered LayerAlreadyExistsException, once for a sha256 digest (Commit
\* returned nil) or once for another algorithm (Commit returned the error).
C18_Witness ==
    /\ Len(results) = 2
    /\ results[1].op = "Write" /\ results[1].err = "nil"
    /\ results[2].op = "Commit"
    /\ Len(completes) = 1
    /\ completes[1].answer = "LayerAlreadyExistsException"
    /\ completes[1].uploaded = completes[1].written
    /\ \/ expectedSha /\ results[2].err = "nil"
       \/ ~expectedSha /\ results[2].err = "LayerAlreadyExistsException"

\* C19: when CompleteLayerUpload succeeds with a digest different from the
\* expected one, Commit returns the digest-validation error; after a
\* successful CompleteLayerUpload Commit returns nil only when the returned
\* digest equals the expected digest.
C19_DigestValidated ==
    \A j \in 1..Len(completes) :
        LET err == results[completes[j].call].err
        IN  /\ completes[j].answer = "ActualDigestDiffers" => err = "DigestErr"
            /\ (completes[j].answer \in {"ActualDigestExpected", "ActualDigestDiffers"}
                /\ err = "nil") => completes[j].answer = "ActualDigestExpected"

\* C19 witness: after a Write whose bytes were uploaded, CompleteLayerUpload
\* succeeded with a different digest and Commit returned the validation error.
C19_Witness ==
    /\ Len(results) = 2
    /\ results[1].op = "Write" /\ results[1].err = "nil"
    /\ results[2].op = "Commit" /\ results[2].err = "DigestErr"
    /\ Len(completes) = 1
    /\ completes[1].answer = "ActualDigestDiffers"
    /\ completes[1].uploaded = completes[1].written

\* C20: newLayerWriter calls InitiateLayerUpload exactly once, before any
\* UploadLayerPart or CompleteLayerUpload call and before any byte is
\* accepted; if InitiateLayerUpload fails, the constructor returns that error
\* and no writer, no goroutine is started, and no UploadLayerPart or
\* CompleteLayerUpload call is made.
C20_InitiateOnceFirst ==
    /\ Len(initiates) <= 1
    /\ newResult.returned => Len(initiates) = 1
    /\ (wnext > 0 \/ uploads # <<>> \/ completeCalls > 0 \/ results # <<>>
        \/ kpc \notin {"new", "noWriter"}) =>
           /\ initiates = <<"nil">>
           /\ newResult = [returned |-> TRUE, writer |-> TRUE, err |-> "nil"]
    /\ (initiates # <<>> /\ initiates[1] # "nil") =>
           /\ newResult = [returned |-> TRUE, writer |-> FALSE, err |-> initiates[1]]
           /\ gpc = "notStarted" /\ ppc = "notStarted" /\ cpc = "notStarted"
           /\ wnext = 0
           /\ uploads = <<>>
           /\ completeCalls = 0 /\ completes = <<>>

\* C20 witness: a writer was created, bytes were written and uploaded and
\* CompleteLayerUpload was called, all after the one InitiateLayerUpload call.
C20_Witness ==
    /\ initiates = <<"nil">>
    /\ newResult.writer
    /\ wnext >= 2
    /\ Len(uploads) >= 1
    /\ completeCalls = 1

\* ---- chunk numbering, cancellation and read errors ------------------------
\* C24: the first chunk passed to the callback has Part = 1, and every later
\* chunk's Part is one greater than the Part of the chunk before it.
C24_PartsStartAtOne ==
    /\ called # <<>> => called[1].Part = 1
    /\ \A i \in 2..Len(called) : called[i].Part = called[i - 1].Part + 1

\* C27 as stated: once the consumer has returned because the callback failed
\* and cancel() has run, the producer completes no read of the source and no
\* send of a chunk.
C27_NoReadOrSendAfterCancel ==
    [][(cancelled /\ cbFailed) =>
          /\ ~(ppc = "read" /\ ppc' # "read")
          /\ produced' = produced]_vars

\* C27 amended: once the consumer has returned because the callback failed
\* and cancel() has run, the producer reads at most one further chunk and
\* sends at most one further chunk (the read it had passed its context check
\* for), and none once it has checked the context again.
C27_AtMostOneReadAndSendAfterCancel ==
    (cancelled /\ cbFailed) =>
        /\ Len(produced) + Len(pchunk) <= atCancel.chunks + 1
        /\ Len(produced) <= atCancel.sent + 1
        /\ ppc \in {"closing", "done"} => pchunk = <<>>

\* C27 witness: the callback failed, cancel() ran while the producer was
\* past its context check, and the producer read and sent one more chunk
\* before it stopped.
C27_Witness ==
    /\ cancelled /\ cbFailed
    /\ ppc = "done"
    /\ Len(produced) = atCancel.chunks + 1
    /\ Len(produced) = atCancel.sent + 1
    /\ Len(input) - rpos >= 1

\* C28: when ChunkedProcessor returns a read error, every chunk that was read
\* before the error has been passed to the callback.
C28_ChunksBeforeReadErrorProcessed ==
    (cpc = "returned" /\ retErr = "ReadErr") => called = produced

\* C29: with queueSize = 0 and a source that does not fail, ChunkedProcessor
\* returns and the producer terminates; with no callback failure every chunk
\* of the input was delivered and the result is nil, with a callback failure
\* the result is that error.
C29_UnbufferedTerminates ==
    queueSize = 0 =>
        <>(\/ readFailed
           \/ /\ cpc = "returned"
              /\ ppc = "done"
              /\ cbFailed => retErr = "CallbackErr"
              /\ ~cbFailed => /\ retErr = "nil"
                              /\ called = produced
                              /\ Len(called) = CeilDiv(Len(input), chunkSize)
                              /\ Concat(called) = input)

\* C29 witness: unbuffered hand-off, the callback failed on the second chunk
\* while the producer went on to hand a third chunk to the drain, and both
\* goroutines have finished.
C29_Witness ==
    /\ queueSize = 0
    /\ ~readFailed /\ cbFailed
    /\ cpc = "returned" /\ ppc = "done"
    /\ Len(called) = 2
    /\ Len(produced) = 3

\* the goroutine of newLayerWriter offers, or has delivered, the error of a
\* part callback on lw.err
ErrorVisible == cbFailed /\ (gpc = "sendErr" \/ errTaken)

\* C30: after a callback error ChunkedProcessor has returned only when the
\* producer has terminated with nothing left in its hand or in the queue, and
\* when a read was in flight as cancel() ran, that read has produced its chunk
\* or found the pipe closed; the error is offered on lw.err, and returned by
\* Write or Commit, only after that return.
C30_ErrorAfterInFlightRead ==
    /\ (cbFailed /\ cpc = "returned") =>
          /\ ppc = "done"
          /\ pchunk = <<>> /\ rbuf = <<>> /\ readChannel = <<>>
          /\ atCancel.reading =>
                (Len(produced) = atCancel.chunks + 1 \/ pipeWClosed)
    /\ ErrorVisible => cpc = "returned"
    /\ \A i \in 1..Len(results) :
          results[i].err \in {"UploadErr", "StatusErr"} => ErrorVisible

\* C30 witness: with parts of 2 bytes, the callback of the first part failed
\* while the producer held the first byte of the next part; a later Write
\* completed that part and a call then returned the upload error.
C30_Witness ==
    /\ chunkSize = 2
    /\ atCancel.reading
    /\ ~pipeWClosed
    /\ Len(uploads) = 1
    /\ Len(produced) = 2
    /\ Len(results) = 3
    /\ results[1].op = "Write" /\ results[1].n = 3
    /\ results[2].op = "Write" /\ results[2].err = "nil"
    /\ results[3].err \in {"UploadErr", "StatusErr"}

\* ---- the status record during a layer upload --------------------------------
\* the Offset before each callback is the Offset left by the one before it
\* (0 at the start of the upload), it never decreases, and a failed
\* UploadLayerPart leaves it as it was
OffsetChain ==
    /\ \A k \in 1..Len(uploads) :
          /\ uploads[k].offset = (IF k = 1 THEN 0 ELSE uploads[k - 1].offsetAfter)
          /\ uploads[k].offsetAfter >= uploads[k].offset
          /\ uploads[k].err # "nil" => uploads[k].offsetAfter = uploads[k].offset
    /\ statusOffset = (IF uploads = <<>> THEN 0 ELSE uploads[Len(uploads)].offsetAfter)

\* C22 as stated: the Offset never decreases, grows by the part's length
\* after each successful UploadLayerPart, is unchanged by a failed part, and
\* once the transfer has ended with every part uploaded it is the number of
\* bytes written.
C22_OffsetGrowsWithEachUploadedPart ==
    /\ OffsetChain
    /\ \A k \in 1..Len(uploads) :
          uploads[k].err = "nil" =>
              uploads[k].offsetAfter = uploads[k].offset + Len(uploads[k].input.LayerPartBlob)
    /\ (cpc = "returned" /\ ~UploadFailed) => statusOffset = wnext

\* C22 amended: the Offset never decreases, grows by the part's length after
\* each successful UploadLayerPart whose status read (GetStatus) succeeds, is
\* unchanged by a failed part or a failed status read, and once the transfer
\* has ended with every part callback succeeding it is the number of bytes
\* written.
C22_OffsetGrowsWithEachRecordedPart ==
    /\ OffsetChain
    /\ \A k \in 1..Len(uploads) :
          /\ uploads[k].cb = "nil" =>
                uploads[k].offsetAfter = uploads[k].offset + Len(uploads[k].input.LayerPartBlob)
          /\ uploads[k].cb # "nil" => uploads[k].offsetAfter = uploads[k].offset
    /\ (cpc = "returned" /\ ~cbFailed) => statusOffset = wnext

\* C22 witness: a transfer of at least 3 bytes in at least two parts has ended
\* with every callback succeeding.
C22_Witness ==
    /\ cpc = "returned" /\ ~cbFailed
    /\ Len(uploads) >= 2
    /\ wnext >= 3
    /\ statusOffset = wnext

\* ---- Close and Truncate ------------------------------------------------------
\* the last call that returned in the next state, when this step returned one
Returns(op) ==
    /\ Len(results') = Len(results) + 1
    /\ results'[Len(results')].op = op

\* C21: Close and Truncate return the not-implemented error, and the step in
\* which they return changes nothing but the record of the calls: the pipe,
\* the transfer, the status record and the caller's position stay as they are.
C21_CloseTruncateChangeNothing ==
    /\ [](\A i \in 1..Len(results) :
             results[i].op \in {"Close", "Truncate"} =>
                 results[i].err = "NotImplemented" /\ results[i].n = 0)
    /\ [][(Returns("Close") \/ Returns("Truncate")) =>
             /\ UNCHANGED cpvars
             /\ UNCHANGED <<pipeData, pipeWClosed, rbuf, wnext, lwErrClosed,
                            lwCtxDone, gpc, statusOffset, uploads, completeCalls,
                            expectedSha, kpc, wlen, callPre, commitCtxDone,
                            errTaken, initiates, newResult, completes, extvars>>]_vars

\* C21 witness: a Write, then a Close, then a Commit that found every byte
\* uploaded and returned nil.
C21_Witness ==
    /\ Len(results) = 3
    /\ results[1].op = "Write" /\ results[1].err = "nil"
    /\ results[2].op = "Close" /\ results[2].err = "NotImplemented"
    /\ results[3].op = "Commit" /\ results[3].err = "nil"
    /\ statusOffset = wnext
    /\ Len(uploads) >= 1

\* ---- the status record under concurrent updates --------------------------------
\* C23: the callback's update of the status record is atomic with respect to
\* other updates of the same ref: every record the callback stores is the
\* record it replaces with the part's length (plus one) added to Offset and
\* UpdatedAt set, so that a SetStatus of another Push that came between the
\* callback's GetStatus and SetStatus is neither lost nor overwritten with
\* stale data.
C23_StatusUpdateAtomic ==
    \A i \in 1..Len(setLog) :
        setLog[i].by = "callback" =>
            setLog[i].status = AfterPart(setLog[i].prev, setLog[i].n)

\* ---- Push of a blob ------------------------------------------------------------
\* C25: InitiateLayerUpload is called only after BatchCheckLayerAvailability
\* returned, without error, at least one layer that is not AVAILABLE. When the
\* layer is AVAILABLE Push returns ErrAlreadyExists and sets the status with
\* UpdatedAt; when the check returns no layers but failures Push returns
\* errLayerNotFound. In both cases no writer is returned and
\* InitiateLayerUpload is not called.
C25_UploadOnlyIfLayerMissing ==
    /\ initiates # <<>> =>
          /\ Len(checks) = 1
          /\ checks[1].err = "nil"
          /\ \E i \in 1..Len(checks[1].Layers) : checks[1].Layers[i] # "AVAILABLE"
    /\ (checks # <<>> /\ checks[1].err = "nil" /\ checks[1].Layers = <<"AVAILABLE">>) =>
          /\ pushResult = [returned |-> TRUE, writer |-> FALSE, err |-> "ErrAlreadyExists"]
          /\ statusSet # <<>> /\ statusSet[Len(statusSet)].UpdatedAt
          /\ ~newResult.writer
          /\ initiates = <<>>
    /\ (checks # <<>> /\ checks[1].err = "nil" /\ checks[1].Layers = <<>>
           /\ checks[1].Failures > 0) =>
          /\ pushResult = [returned |-> TRUE, writer |-> FALSE, err |-> "errLayerNotFound"]
          /\ ~newResult.writer
          /\ initiates = <<>>

\* Push has returned ErrAlreadyExists for a layer that is AVAILABLE
C25_Witness ==
    /\ Len(checks) = 1
    /\ checks[1].Layers = <<"AVAILABLE">>
    /\ pushResult.returned
    /\ pushResult.err = "ErrAlreadyExists"
    /\ statusSet = <<StatusExists>>

\* ---- a part size of zero ---------------------------------------------------------
\* C31: with chunkSize = 0 the producer never observes the end of the stream,
\* produces no chunk and keeps looping, so ChunkedProcessor never returns: a
\* layer writer whose InitiateLayerUpload output carries no PartSize, or 0,
\* never finishes its background transfer and its Commit never returns.
C31_ZeroPartSizeNeverFinishes ==
    (newResult.writer /\ chunkSize = 0) =>
        /\ ppc \in {"select", "read"}
        /\ produced = <<>> /\ pchunk = <<>> /\ called = <<>>
        /\ cpc = "select"
        /\ gpc = "run" /\ ~lwErrClosed /\ ~lwCtxDone
        /\ \A i \in 1..Len(results) : results[i].op # "Commit"

\* C31 witness: the part size is 0, Commit has closed the pipe and waits, and
\* the producer is about to read again
C31_Witness ==
    /\ newResult.writer /\ chunkSize = 0
    /\ kpc = "csel" /\ pipeWClosed
    /\ ppc = "read"
    /\ results # <<>>

\* ---- the error of the background transfer -----------------------------------------
\* call i of the writer returned the error ChunkedProcessor returned
ReturnedTransferError(i) == retErr # "nil" /\ results[i].err = retErr

\* C32: the error of a failed background transfer is handed to one caller: the
\* first Write or Commit that receives from lw.err returns it, and no later
\* Write or Commit of the same writer returns it again.
C32_ErrorHandedOnce ==
    /\ \A i, j \in 1..Len(results) :
          (ReturnedTransferError(i) /\ ReturnedTransferError(j)) => i = j
    /\ \A i \in 1..Len(results) :
          ReturnedTransferError(i) =>
              /\ results[i].op \in {"Write", "Commit"}
              /\ ~results[i].taken
              /\ errTaken
              /\ gpc # "sendErr"
    /\ errTaken => \E i \in 1..Len(results) : ReturnedTransferError(i)

\* C32 witness: after a first call the second call returned the error of the
\* transfer, and a later Commit of the same writer returned without it
C32_Witness ==
    /\ Len(results) = 3
    /\ ReturnedTransferError(2)
    /\ results[3].op = "Commit"
    /\ results[3].taken

\* an UploadLayerPart call succeeded and the GetStatus that followed it failed
StatusLookupFailed ==
    \E i \in 1..Len(uploads) : uploads[i].err = "nil" /\ uploads[i].cb = "StatusErr"

\* C33: when UploadLayerPart succeeds for a part and GetStatus fails, the
\* callback returns the lookup error: the transfer ends with it, no later part
\* is uploaded, and every Commit returns the lookup error without a call of
\* CompleteLayerUpload.
C33_StatusErrorFailsCommit ==
    StatusLookupFailed =>
        /\ retErr = "StatusErr"
        /\ uploads[Len(uploads)].cb = "StatusErr"
        /\ \A i \in CommitCalls :
              results[i].err = "StatusErr" /\ ~results[i].completed
        /\ completeCalls = 0

\* ---- the status record of a pushed blob ------------------------------------------
\* C34: for a blob pushed through Push the status record of its ref (Offset 0,
\* Total = the descriptor's size, StartedAt set) is stored before the layer
\* writer is created, hence before any part callback runs: the record is
\* there at every callback.
C34_StatusStoredBeforeWriter ==
    (kpc = "new" \/ initiates # <<>> \/ newResult.returned \/ gpc # "notStarted"
        \/ cpc # "notStarted" \/ uploads # <<>>) =>
        /\ statusSet # <<>>
        /\ statusSet[Len(statusSet)] =
              [Offset |-> 0, Total |-> descSize, UpdatedAt |-> FALSE, StartedAt |-> TRUE]

\* C34 witness: Push has run the check, the writer was created and the
\* callback of a part has found the record and updated it
C34_Witness ==
    /\ Len(checks) = 1 /\ checks[1].Layers = <<"UNAVAILABLE">>
    /\ newResult.writer
    /\ uploads # <<>> /\ uploads[1].cb = "nil"
    /\ statusSet = <<StatusStarted>>
    /\ statusOffset > 0

\* ---- manifestWriter -----------------------------------------------------------
\* the bytes passed to the first k calls that were Writes, concatenated
WrittenBefore(k) ==
    Flatten([i \in 1..Cardinality({j \in 1..(k - 1) : mwResults[j].op = "Write"}) |->
                mwWrites[i]])

\* C26: Write never calls PutImage; each Commit calls PutImage exactly once,
\* with the concatenation of all the bytes written before it; Commit returns
\* an error when PutImage fails, returns nil output or a digest different
\* from the expected one.
C26_PutImageOnCommitOnly ==
    /\ Len(putImages) = Cardinality({k \in 1..Len(mwResults) : mwResults[k].op = "Commit"})
    /\ \A i \in 1..Len(putImages) :
          /\ mwResults[putImages[i].call].op = "Commit"
          /\ putImages[i].manifest = WrittenBefore(putImages[i].call)
          /\ \A j \in 1..Len(putImages) : putImages[j].call = putImages[i].call => j = i
    /\ \A k \in 1..Len(mwResults) :
          (mwResults[k].op = "Commit"
           /\ mwResults[k].answer \in {"PutErr", "NilOutput", "DigestDiffers"}) =>
              mwResults[k].err # "nil"

\* C26 witness: two Writes and then a Commit whose PutImage carried both
\* payloads and returned another digest.
C26_Witness ==
    /\ Len(mwResults) = 3
    /\ mwResults[1].op = "Write" /\ mwResults[2].op = "Write"
    /\ mwResults[3].op = "Commit" /\ mwResults[3].err = "DigestMismatch"
    /\ Len(putImages) = 1
    /\ Len(putImages[1].manifest) >= 3
    /\ putImages[1].manifest = mwWrites[1] \o mwWrites[2]

====
